---- MODULE Spec2Model ----
(***************************************************************************)
(* Verification model of the crypto volatility pipeline core:              *)
(*   - the quality gate     (src/src/data/quality_check.py)                *)
(*   - the feature pipeline (src/src/data/transform.py)                    *)
(*                                                                         *)
(* Floating-point columns are modelled in fixed point: a number x is held  *)
(* as the integer floor(x * Scale).  The three special floats are kept as  *)
(* separate cell kinds: NaN (the missing marker), +inf and -inf.           *)
(* Rows are numbered 1..n here; row i of the model is row i-1 of pandas.   *)
(***************************************************************************)
EXTENDS Integers, Sequences, FiniteSets, TLC

(***************************************************************************)
(* Bounds of the model.                                                    *)
(***************************************************************************)
\* fixed-point resolution of a float cell
Scale == 1000
\* rows a series may have beyond the warm-up (288) and the label shift
MaxExtra == 4

(***************************************************************************)
(* Float cells.                                                            *)
(***************************************************************************)
NaN == [k |-> "nan", v |-> 0]
PInf == [k |-> "inf", v |-> 1]
NInf == [k |-> "inf", v |-> -1]
Num(x) == [k |-> "num", v |-> x]

IsNum(a) == a.k = "num"
IsNaN(a) == a.k = "nan"
IsInf(a) == a.k = "inf"
\* a cell pandas' isna() reports as present
NotNa(a) == a.k # "nan"
Sign(x) == IF x > 0 THEN 1 ELSE IF x < 0 THEN -1 ELSE 0
InfOf(s) == IF s > 0 THEN PInf ELSE NInf

\* IEEE addition / subtraction / negation / division on cells
FNeg(a) == IF IsNum(a) THEN Num(-a.v) ELSE IF IsInf(a) THEN InfOf(-a.v) ELSE NaN
FAdd(a, b) ==
    IF IsNaN(a) \/ IsNaN(b) THEN NaN
    ELSE IF IsNum(a) /\ IsNum(b) THEN Num(a.v + b.v)
    ELSE IF IsInf(a) /\ IsInf(b) THEN (IF a.v = b.v THEN a ELSE NaN)
    ELSE IF IsInf(a) THEN a ELSE b
FSub(a, b) == FAdd(a, FNeg(b))
\* a variant that gives 0 for a division by zero
FDiv_zero(a, b) ==
    IF IsNaN(a) \/ IsNaN(b) THEN NaN
    ELSE IF IsInf(a) /\ IsInf(b) THEN NaN
    ELSE IF IsInf(a) THEN InfOf(a.v * (IF b.v < 0 THEN -1 ELSE 1))
    ELSE IF IsInf(b) THEN Num(0)
    ELSE IF b.v = 0 THEN Num(0)
    ELSE Num((a.v * Scale) \div b.v)
FDiv(a, b) ==
    IF IsNaN(a) \/ IsNaN(b) THEN NaN
    ELSE IF IsInf(a) /\ IsInf(b) THEN NaN
    ELSE IF IsInf(a) THEN InfOf(a.v * (IF b.v < 0 THEN -1 ELSE 1))
    ELSE IF IsInf(b) THEN Num(0)
    ELSE IF b.v = 0 THEN (IF a.v = 0 THEN NaN ELSE InfOf(Sign(a.v)))
    ELSE Num((a.v * Scale) \div b.v)

RECURSIVE IsqrtIter(_, _)
IsqrtIter(n, x) ==
    LET y == (x + n \div x) \div 2
    IN  IF y >= x THEN x ELSE IsqrtIter(n, y)
\* floor of the square root
Isqrt(n) == IF n <= 0 THEN 0 ELSE IsqrtIter(n, n)

SetMin(S) == CHOOSE m \in S : \A k \in S : m <= k
SetMax(S) == CHOOSE m \in S : \A k \in S : m >= k
Max2(a, b) == IF a >= b THEN a ELSE b
Min2(a, b) == IF a <= b THEN a ELSE b

(***************************************************************************)
(* Column operators of pandas used by transform.py.  A column is a         *)
(* sequence of cells; a table maps column names to columns.                *)
(***************************************************************************)
\* the column with the n cells f[1], ..., f[n], each computed once
Col(f, n) == SubSeq(f, 1, n)
\* the table t with its columns computed once
Table(t) == t @@ <<>>

\* Series.shift(k): row i takes the value of row i-k (k < 0 looks ahead)
Shift(xs, k) ==
    LET n == Len(xs)
    IN  Col([i \in 1..n |-> IF i - k >= 1 /\ i - k <= n THEN xs[i - k] ELSE NaN], n)

RECURSIVE FfillRange(_, _, _, _)
\* rows lo..hi of the forward fill, `carry` being the last present cell before lo
FfillRange(xs, lo, hi, carry) ==
    IF lo > hi THEN <<>>
    ELSE IF lo = hi THEN <<IF NotNa(xs[lo]) THEN xs[lo] ELSE carry>>
    ELSE LET mid == (lo + hi) \div 2
             left == FfillRange(xs, lo, mid, carry)
         IN  left \o FfillRange(xs, mid + 1, hi, left[Len(left)])
\* Series.ffill(): carry the last present value forward
Ffill(xs) == FfillRange(xs, 1, Len(xs), NaN)

\* Series.pct_change(k), fill_method='pad': data = ffill(); data / data.shift(k) - 1
PctChange(xs, k) ==
    LET data == Ffill(xs)
        n == Len(xs)
    IN  Col([i \in 1..n |->
                IF i - k >= 1 THEN FSub(FDiv(data[i], data[i - k]), Num(Scale)) ELSE NaN], n)

\* Series.diff()
Diff(xs) ==
    LET n == Len(xs)
    IN  Col([i \in 1..n |-> IF i >= 2 THEN FSub(xs[i], xs[i - 1]) ELSE NaN], n)

RECURSIVE RunningRange(_, _, _, _, _)
\* running totals of Val over the present cells of rows lo..hi, `before` being
\* the total of the rows before lo
RunningRange(xs, Val(_), lo, hi, before) ==
    IF lo > hi THEN <<>>
    ELSE IF lo = hi THEN <<before + (IF IsNum(xs[lo]) THEN Val(xs[lo]) ELSE 0)>>
    ELSE LET mid == (lo + hi) \div 2
             left == RunningRange(xs, Val, lo, mid, before)
         IN  left \o RunningRange(xs, Val, mid + 1, hi, left[Len(left)])
\* running number and running sum of the present cells
CumCount(xs) == RunningRange(xs, LAMBDA c : 1, 1, Len(xs), 0)
CumSum(xs) == RunningRange(xs, LAMBDA c : c.v, 1, Len(xs), 0)
\* total of rows lo..hi from the running totals
Between(cum, lo, hi) == cum[hi] - (IF lo > 1 THEN cum[lo - 1] ELSE 0)

RECURSIVE SumSqDev(_, _, _, _)
\* sum of the squared deviations from mean of the present cells in rows lo..hi
SumSqDev(xs, lo, hi, mean) ==
    IF lo > hi THEN 0
    ELSE IF lo = hi
         THEN (IF IsNum(xs[lo]) THEN (xs[lo].v - mean) * (xs[lo].v - mean) ELSE 0)
    ELSE SumSqDev(xs, lo, (lo + hi) \div 2, mean)
         + SumSqDev(xs, (lo + hi) \div 2 + 1, hi, mean)
RECURSIVE MaxObs(_, _, _)
\* largest cell of rows lo..hi, all present
MaxObs(xs, lo, hi) ==
    IF lo = hi THEN xs[lo].v
    ELSE Max2(MaxObs(xs, lo, (lo + hi) \div 2), MaxObs(xs, (lo + hi) \div 2 + 1, hi))
RECURSIVE MinObs(_, _, _)
\* smallest cell of rows lo..hi, all present
MinObs(xs, lo, hi) ==
    IF lo = hi THEN xs[lo].v
    ELSE Min2(MinObs(xs, lo, (lo + hi) \div 2), MinObs(xs, (lo + hi) \div 2 + 1, hi))

\* first row of the window of w rows ending at row i
WinLo(i, w) == Max2(1, i - w + 1)

\* Series.rolling(window=w, min_periods=m).mean(): missing cells are skipped
RollMean(xs, w, m) ==
    LET n == Len(xs)
        cnt == CumCount(xs)
        sum == CumSum(xs)
    IN  Col([i \in 1..n |->
                LET c == Between(cnt, WinLo(i, w), i)
                IN  IF c < m \/ c = 0 THEN NaN
                    ELSE Num(Between(sum, WinLo(i, w), i) \div c)], n)

\* Series.rolling(window=w, min_periods=m).std(): sample deviation (ddof = 1)
RollStd(xs, w, m) ==
    LET n == Len(xs)
        cnt == CumCount(xs)
        sum == CumSum(xs)
    IN  Col([i \in 1..n |->
                LET c == Between(cnt, WinLo(i, w), i)
                    mean == Between(sum, WinLo(i, w), i) \div c
                IN  IF c < m \/ c < 2 THEN NaN
                    ELSE Num(Isqrt(SumSqDev(xs, WinLo(i, w), i, mean) \div (c - 1)))], n)

\* a variant with min_periods = 1: defined from the first row on
RollMax_partial(xs, w) ==
    LET n == Len(xs)
    IN  Col([i \in 1..n |-> Num(MaxObs(xs, WinLo(i, w), i))], n)
\* Series.rolling(window=w).max() / .min(): min_periods defaults to the window
RollMax(xs, w) ==
    LET n == Len(xs)
        cnt == CumCount(xs)
    IN  Col([i \in 1..n |->
                IF i < w \/ Between(cnt, i - w + 1, i) < w THEN NaN
                ELSE Num(MaxObs(xs, i - w + 1, i))], n)
RollMin(xs, w) ==
    LET n == Len(xs)
        cnt == CumCount(xs)
    IN  Col([i \in 1..n |->
                IF i < w \/ Between(cnt, i - w + 1, i) < w THEN NaN
                ELSE Num(MinObs(xs, i - w + 1, i))], n)

\* One step of Series.ewm(span, adjust=False).mean(), ignore_na=False.
\* st = [w: running average, on/od: old_wt = (1 - alpha)^gap as a fraction].
\* A missing cell repeats the running average and ages its weight.
EwmStep(st, cur, span) ==
    IF IsNum(st.w)
    THEN IF IsNum(cur)
         THEN LET on2 == st.on * (span - 1)
              IN  [w |-> IF st.w = cur THEN cur
                         ELSE Num((on2 * st.w.v + 2 * st.od * cur.v) \div (on2 + 2 * st.od)),
                   on |-> 1, od |-> 1]
         ELSE [w |-> st.w, on |-> st.on * (span - 1), od |-> st.od * (span + 1)]
    ELSE IF IsNum(cur) THEN [w |-> cur, on |-> 1, od |-> 1] ELSE st

RECURSIVE EwmRange(_, _, _, _, _)
\* the states after rows lo..hi, entered in state st
EwmRange(xs, span, lo, hi, st) ==
    IF lo > hi THEN <<>>
    ELSE IF lo = hi THEN <<EwmStep(st, xs[lo], span)>>
    ELSE LET mid == (lo + hi) \div 2
             left == EwmRange(xs, span, lo, mid, st)
         IN  left \o EwmRange(xs, span, mid + 1, hi, left[Len(left)])
Ewm(xs, span) ==
    LET n == Len(xs)
        sts == EwmRange(xs, span, 1, n, [w |-> NaN, on |-> 1, od |-> 1])
    IN  Col([i \in 1..n |-> sts[i].w], n)

\* element-wise a / b, a - b
ColDiv(a, b) == LET n == Len(a) IN Col([i \in 1..n |-> FDiv(a[i], b[i])], n)
ColSub(a, b) == LET n == Len(a) IN Col([i \in 1..n |-> FSub(a[i], b[i])], n)

(***************************************************************************)
(* CryptoFeatureEngineer (transform.py).  A table maps a column name to a  *)
(* column; all columns of a table have the same length.                    *)
(***************************************************************************)
NRows(df) == Len(df["date"])

\* create_price_features
create_price_features(df) ==
    LET p == df["priceUsd"]
        ma_5 == RollMean(p, 5, 1)
        ma_12 == RollMean(p, 12, 1)
        ma_48 == RollMean(p, 48, 1)
        ema_12 == Ewm(p, 12)
        ema_48 == Ewm(p, 48)
        macd == ColSub(ema_12, ema_48)
    IN  [price_return_5m |-> PctChange(p, 1),
         price_return_15m |-> PctChange(p, 3),
         price_return_30m |-> PctChange(p, 6),
         price_return_1h |-> PctChange(p, 12),
         price_return_4h |-> PctChange(p, 48),
         price_return_24h |-> PctChange(p, 288),
         ma_5 |-> ma_5, ma_12 |-> ma_12, ma_48 |-> ma_48,
         ma_144 |-> RollMean(p, 144, 1),
         price_to_ma5 |-> ColDiv(p, ma_5),
         price_to_ma12 |-> ColDiv(p, ma_12),
         price_to_ma48 |-> ColDiv(p, ma_48),
         ema_12 |-> ema_12, ema_48 |-> ema_48,
         macd |-> macd,
         macd_signal |-> Ewm(macd, 9)] @@ df

\* create_volatility_features
create_volatility_features(df) ==
    LET p == df["priceUsd"]
        volatility_1h == RollStd(p, 12, 5)
        volatility_4h == RollStd(p, 48, 10)
        high_5m == RollMax(p, 5)
        low_5m == RollMin(p, 5)
        high_1h == RollMax(p, 12)
        low_1h == RollMin(p, 12)
    IN  [volatility_5m |-> RollStd(p, 5, 2),
         volatility_30m |-> RollStd(p, 30, 5),
         volatility_1h |-> volatility_1h,
         volatility_4h |-> volatility_4h,
         cv_1h |-> ColDiv(volatility_1h, df["ma_12"]),
         cv_4h |-> ColDiv(volatility_4h, df["ma_48"]),
         high_5m |-> high_5m, low_5m |-> low_5m,
         hl_range_5m |-> ColDiv(ColSub(high_5m, low_5m), low_5m),
         high_1h |-> high_1h, low_1h |-> low_1h,
         hl_range_1h |-> ColDiv(ColSub(high_1h, low_1h), low_1h)] @@ df

\* delta.where(delta > 0, 0) and -delta.where(delta < 0, 0): a comparison with
\* a missing delta is false, so a missing delta counts as 0
\* a variant that keeps the falls in the gains
Gains_signed(delta) ==
    Col([i \in 1..Len(delta) |-> IF IsNum(delta[i]) THEN delta[i] ELSE Num(0)], Len(delta))
Gains(delta) ==
    Col([i \in 1..Len(delta) |->
            IF IsNum(delta[i]) /\ delta[i].v > 0 THEN delta[i] ELSE Num(0)], Len(delta))
Losses(delta) ==
    Col([i \in 1..Len(delta) |->
            IF IsNum(delta[i]) /\ delta[i].v < 0 THEN FNeg(delta[i]) ELSE Num(0)], Len(delta))

\* 100 - 100 / (1 + rs)
RsiOf(rs) == FSub(Num(100 * Scale), FDiv(Num(100 * Scale), FAdd(Num(Scale), rs)))

\* create_momentum_features
create_momentum_features(df) ==
    LET p == df["priceUsd"]
        delta == Diff(p)
        gain == RollMean(Gains(delta), 14, 14)
        loss == RollMean(Losses(delta), 14, 14)
        rs == ColDiv(gain, loss)
    IN  [roc_12 |-> ColDiv(ColSub(p, Shift(p, 12)), Shift(p, 12)),
         roc_48 |-> ColDiv(ColSub(p, Shift(p, 48)), Shift(p, 48)),
         rsi |-> Col([i \in 1..Len(p) |-> RsiOf(rs[i])], Len(p)),
         price_accel |-> Diff(df["price_return_5m"])] @@ df

\* sin(2*pi*h/24) and sin(2*pi*d/7), cos(2*pi*d/7) in thousandths
HourSinTab == <<0, 258, 500, 707, 866, 965, 1000, 965, 866, 707, 500, 258,
                0, -258, -500, -707, -866, -965, -1000, -965, -866, -707, -500, -258>>
DowSinTab == <<0, 781, 974, 433, -433, -974, -781>>
DowCosTab == <<1000, 623, -222, -900, -900, -222, 623>>
Milli(x) == Num((x * Scale) \div 1000)

\* A timestamp is a number of minutes since a Monday 00:00 that is the first
\* day of its month; NaT is the missing cell.
HourOf(d) == IF IsNum(d) THEN Num(((d.v \div 60) % 24) * Scale) ELSE NaN
DayOfWeek(d) == IF IsNum(d) THEN Num(((d.v \div 1440) % 7) * Scale) ELSE NaN
DayOfMonth(d) == IF IsNum(d) THEN Num(((d.v \div 1440) + 1) * Scale) ELSE NaN

\* Series.min(): the earliest present timestamp, NaT when there is none
MinDate(ds) ==
    LET present == {ds[i].v : i \in {j \in 1..Len(ds) : IsNum(ds[j])}}
    IN  IF present = {} THEN NaN
        ELSE Num(CHOOSE m \in present : \A k \in present : m <= k)

\* a column computed from the timestamp of each row, missing where it is NaT
OfDate(ds, F(_)) ==
    Col([i \in 1..Len(ds) |-> IF IsNum(ds[i]) THEN F(ds[i]) ELSE NaN], Len(ds))
HourNo(d) == (d.v \div 60) % 24
DowNo(d) == (d.v \div 1440) % 7

\* create_temporal_features
create_temporal_features(df) ==
    LET ds == df["date"]
        start == MinDate(ds)
    IN  [hour |-> OfDate(ds, HourOf),
         day_of_week |-> OfDate(ds, DayOfWeek),
         day_of_month |-> OfDate(ds, DayOfMonth),
         is_weekend |-> Col([i \in 1..Len(ds) |->
             IF IsNum(ds[i]) /\ DowNo(ds[i]) >= 5 THEN Num(Scale) ELSE Num(0)], Len(ds)),
         hour_sin |-> OfDate(ds, LAMBDA d : Milli(HourSinTab[HourNo(d) + 1])),
         hour_cos |-> OfDate(ds, LAMBDA d : Milli(HourSinTab[((HourNo(d) + 6) % 24) + 1])),
         dow_sin |-> OfDate(ds, LAMBDA d : Milli(DowSinTab[DowNo(d) + 1])),
         dow_cos |-> OfDate(ds, LAMBDA d : Milli(DowCosTab[DowNo(d) + 1])),
         hours_elapsed |-> OfDate(ds, LAMBDA d :
             IF IsNum(start) THEN Num(((d.v - start.v) * Scale) \div 60) ELSE NaN)] @@ df

\* create_lag_features, lags = [1, 2, 3, 6, 12]
\* a variant that reads the next row for the first price lag
create_lag_features_lookahead(df) ==
    LET p == df["priceUsd"]
        v == df["volatility_1h"]
    IN  [price_lag_1 |-> Shift(p, -1), volatility_lag_1 |-> Shift(v, 1),
         price_lag_2 |-> Shift(p, 2), volatility_lag_2 |-> Shift(v, 2),
         price_lag_3 |-> Shift(p, 3), volatility_lag_3 |-> Shift(v, 3),
         price_lag_6 |-> Shift(p, 6), volatility_lag_6 |-> Shift(v, 6),
         price_lag_12 |-> Shift(p, 12), volatility_lag_12 |-> Shift(v, 12)] @@ df

create_lag_features(df) ==
    LET p == df["priceUsd"]
        v == df["volatility_1h"]
    IN  [price_lag_1 |-> Shift(p, 1), volatility_lag_1 |-> Shift(v, 1),
         price_lag_2 |-> Shift(p, 2), volatility_lag_2 |-> Shift(v, 2),
         price_lag_3 |-> Shift(p, 3), volatility_lag_3 |-> Shift(v, 3),
         price_lag_6 |-> Shift(p, 6), volatility_lag_6 |-> Shift(v, 6),
         price_lag_12 |-> Shift(p, 12), volatility_lag_12 |-> Shift(v, 12)] @@ df

\* rows of one hour at 5-minute sampling
RowsPerHour == 12

\* a variant whose label is one row short of the horizon
create_target_variable_short(df, prediction_horizon) ==
    LET shift_periods == prediction_horizon * RowsPerHour - 1
        target == Shift(df["volatility_1h"], -shift_periods)
    IN  [target_volatility |-> target,
         target_volatility_norm |-> ColDiv(target, df["priceUsd"])] @@ df

\* create_target_variable
create_target_variable(df, prediction_horizon) ==
    LET shift_periods == prediction_horizon * RowsPerHour
        target == Shift(df["volatility_1h"], -shift_periods)
    IN  [target_volatility |-> target,
         target_volatility_norm |-> ColDiv(target, df["priceUsd"])] @@ df

RECURSIVE PositionsWhere(_, _, _)
\* the ascending sequence of the rows i in lo..hi with keep[i]
PositionsWhere(keep, lo, hi) ==
    IF lo > hi THEN <<>>
    ELSE IF lo = hi THEN (IF keep[lo] THEN <<lo>> ELSE <<>>)
    ELSE LET mid == (lo + hi) \div 2
         IN  PositionsWhere(keep, lo, mid) \o PositionsWhere(keep, mid + 1, hi)

\* the rows at the given positions, in that order
TakeRows(df, pos) ==
    Table([c \in DOMAIN df |-> Col([j \in 1..Len(pos) |-> df[c][pos[j]]], Len(pos))])

\* a variant that leaves infinities in place
ReplaceInf_skipped(df) == df
\* df.replace([inf, -inf], nan)
ReplaceInf(df) ==
    Table([c \in DOMAIN df |->
              Col([i \in 1..Len(df[c]) |-> IF IsInf(df[c][i]) THEN NaN ELSE df[c][i]],
                  Len(df[c]))])
\* a variant that keeps the rows without a label
LabelRows_all(df) == Col([i \in 1..NRows(df) |-> i], NRows(df))
\* df.dropna(subset=['target_volatility']): positions kept
LabelRows(df) ==
    PositionsWhere(Col([i \in 1..NRows(df) |-> NotNa(df["target_volatility"][i])],
                       NRows(df)), 1, NRows(df))
\* a variant that fills nothing
FillForward_skipped(df) == df
\* df.fillna(method='ffill')
FillForward(df) == Table([c \in DOMAIN df |-> Ffill(df[c])])
\* df.dropna(): positions of the rows without a missing cell
CompleteRows(df) ==
    PositionsWhere(Col([i \in 1..NRows(df) |-> \A c \in DOMAIN df : NotNa(df[c][i])],
                       NRows(df)), 1, NRows(df))

\* clean_features: positions (in df) of the rows it returns
clean_rows(df) ==
    LET a == ReplaceInf(df)
        k1 == LabelRows(a)
        filled == FillForward(TakeRows(a, k1))
        k2 == CompleteRows(filled)
    IN  Col([j \in 1..Len(k2) |-> k1[k2[j]]], Len(k2))
\* a variant that also drops the first row of the table it returns
clean_features_trimmed(df) ==
    LET a == ReplaceInf(df)
        filled == FillForward(TakeRows(a, LabelRows(a)))
        kept == CompleteRows(filled)
    IN  TakeRows(filled, SubSeq(kept, 2, Len(kept)))
\* clean_features: the table it returns
clean_features(df) ==
    LET a == ReplaceInf(df)
        filled == FillForward(TakeRows(a, LabelRows(a)))
    IN  TakeRows(filled, CompleteRows(filled))

\* select_features: the schema in its fixed order
feature_cols ==
    <<"price_return_5m", "price_return_15m", "price_return_30m",
      "price_return_1h", "price_return_4h", "price_return_24h",
      "price_to_ma5", "price_to_ma12", "price_to_ma48",
      "macd", "macd_signal",
      "volatility_5m", "volatility_30m", "volatility_1h", "volatility_4h",
      "cv_1h", "cv_4h",
      "hl_range_5m", "hl_range_1h",
      "roc_12", "roc_48", "rsi", "price_accel",
      "hour_sin", "hour_cos", "dow_sin", "dow_cos",
      "is_weekend", "hours_elapsed",
      "price_lag_1", "price_lag_2", "price_lag_3", "price_lag_6", "price_lag_12",
      "volatility_lag_1", "volatility_lag_2", "volatility_lag_3">>
IsColumnOf(df, c) == c \in DOMAIN df
\* a variant that keeps a schema column only when it holds a value
select_features_nonempty(df) ==
    SelectSeq(feature_cols, LAMBDA c : IsColumnOf(df, c) /\ Len(df[c]) > 0)
select_features(df) == SelectSeq(feature_cols, LAMBDA c : IsColumnOf(df, c))

SeqToSet(q) == {q[i] : i \in 1..Len(q)}
\* final_cols = feature_names + ['target_volatility', 'target_volatility_norm', 'date']
final_cols(names) == names \o <<"target_volatility", "target_volatility_norm", "date">>
\* df[final_cols]
Project(df, cols) == Table([c \in SeqToSet(cols) |-> df[c]])

(***************************************************************************)
(* Raw CSV rows.  A raw field is a number, an empty field or other text.   *)
(***************************************************************************)
RawNum(x) == [k |-> "num", v |-> x]
RawEmpty == [k |-> "empty", v |-> 0]
RawText == [k |-> "text", v |-> 0]

\* pd.to_datetime on a field that parses: an empty field gives NaT
ToDatetime(c) == IF c.k = "num" THEN Num(c.v) ELSE NaN
\* pd.to_datetime raises on a field that is neither empty nor a timestamp
DateParses(c) == c.k # "text"
\* pd.to_numeric(errors='coerce')
ToNumeric(c) == IF c.k = "num" THEN Num(c.v) ELSE NaN

\* sort_values('date'): ascending, NaT last, equal keys in file order
SortKey(rows, i) == IF rows[i].date.k = "num" THEN <<0, rows[i].date.v>> ELSE <<1, 0>>
KeyLess(a, b) == a[1] < b[1] \/ (a[1] = b[1] /\ a[2] < b[2])
\* a variant that keeps the file order
SortByDate_skipped(rows) == rows
SortByDate(rows) ==
    LET n == Len(rows)
        key == Col([i \in 1..n |-> SortKey(rows, i)], n)
        rank == Col([i \in 1..n |->
                   Cardinality({j \in 1..n : KeyLess(key[j], key[i])
                                             \/ (key[j] = key[i] /\ j < i)}) + 1], n)
        at == Col([r \in 1..n |-> CHOOSE i \in 1..n : rank[i] = r], n)
    IN  Col([r \in 1..n |-> rows[at[r]]], n)

\* load_raw_data: the table it returns when every date parses
load_raw_data(rows) ==
    LET sorted == SortByDate(rows)
        n == Len(rows)
    IN  [date |-> Col([i \in 1..n |-> ToDatetime(sorted[i].date)], n),
         priceUsd |-> Col([i \in 1..n |-> ToNumeric(sorted[i].priceUsd)], n)]
load_raises(rows) == \E i \in 1..Len(rows) : ~DateParses(rows[i].date)

(***************************************************************************)
(* Input series of the transform runs.                                     *)
(***************************************************************************)
\* lookback of price_return_24h, the longest warm-up of a schema column
WarmUp == 288
\* timestamp of the first row: a Friday, 22:00
Start == 7080
\* row of the defect in a series that has one
DefectAt == WarmUp + 3
\* length of a run of zero prices: two rows more than the longest window of a
\* moving average that is a denominator (ma_48)
ZeroRun == 50

Price(shape, i) ==
    CASE shape = "ramp" -> 100 * Scale + (Scale \div 10) * (i - 1)
      [] shape = "wave" -> (((i * i + i \div 5) % 7) + 1) * Scale
      [] shape = "flat" -> 50 * Scale
BaseRow(shape, i) ==
    [date |-> RawNum(Start + 5 * (i - 1)), priceUsd |-> RawNum(Price(shape, i))]
DefectRow(inp, i) ==
    LET b == BaseRow(inp.shape, i)
        hit == i = inp.at
    IN  CASE hit /\ inp.defect = "nan_price" -> [b EXCEPT !.priceUsd = RawEmpty]
          [] hit /\ inp.defect = "text_price" -> [b EXCEPT !.priceUsd = RawText]
          [] hit /\ inp.defect = "zero_price" -> [b EXCEPT !.priceUsd = RawNum(0)]
          [] inp.defect = "zero_run" /\ i <= inp.at /\ i > inp.at - ZeroRun ->
                [b EXCEPT !.priceUsd = RawNum(0)]
          [] hit /\ inp.defect = "dup_date" /\ i > 1 ->
                [b EXCEPT !.date = BaseRow(inp.shape, i - 1).date]
          [] hit /\ inp.defect = "no_date" -> [b EXCEPT !.date = RawEmpty]
          [] hit /\ inp.defect = "bad_date" -> [b EXCEPT !.date = RawText]
          [] hit /\ inp.defect = "swap" /\ i < inp.n -> BaseRow(inp.shape, i + 1)
          [] i = inp.at + 1 /\ inp.defect = "swap" -> BaseRow(inp.shape, i - 1)
          [] OTHER -> b
MakeRaw(inp) == Col([i \in 1..inp.n |-> DefectRow(inp, i)], inp.n)

Defects == {"nan_price", "text_price", "zero_price", "dup_date", "no_date",
            "bad_date", "swap"}
SeriesLen(h, extra) == WarmUp + RowsPerHour * h + extra
Inputs ==
    {[shape |-> "ramp", n |-> SeriesLen(1, e), h |-> 1, defect |-> "none", at |-> 0]
        : e \in {0, 1, MaxExtra}}
    \cup {[shape |-> "wave", n |-> SeriesLen(1, MaxExtra), h |-> 1, defect |-> d,
           at |-> DefectAt] : d \in Defects \cup {"none"}}
    \cup {[shape |-> "ramp", n |-> SeriesLen(1, MaxExtra), h |-> 1, defect |-> d,
           at |-> DefectAt] : d \in {"nan_price", "dup_date"}}
    \cup {[shape |-> "wave", n |-> SeriesLen(1, MaxExtra), h |-> 1, defect |-> "nan_price",
           at |-> 1]}
    \cup {[shape |-> "wave", n |-> SeriesLen(1, MaxExtra), h |-> 1, defect |-> "zero_run",
           at |-> DefectAt]}
    \cup {[shape |-> "flat", n |-> SeriesLen(1, MaxExtra), h |-> 1, defect |-> "none",
           at |-> 0]}
    \cup {[shape |-> "wave", n |-> SeriesLen(2, MaxExtra), h |-> 2, defect |-> "none",
           at |-> 0]}
    \cup {[shape |-> "wave", n |-> m, h |-> 1, defect |-> "none", at |-> 0] : m \in {0, 3}}

\* the second series of a pair: the same rows, or the rows after `cut`
\* rewritten (other prices, later timestamps) or removed
Perturb(rows, cut, mode) ==
    CASE mode = "same" -> rows
      [] mode = "cut" -> SubSeq(rows, 1, cut)
      [] mode = "suffix" ->
            Col([i \in 1..Len(rows) |->
                IF i <= cut THEN rows[i]
                ELSE [date |-> IF rows[i].date.k = "num"
                               THEN RawNum(rows[i].date.v + 60) ELSE rows[i].date,
                      priceUsd |-> IF rows[i].priceUsd.k = "num"
                                   THEN RawNum(rows[i].priceUsd.v + (2 + (i % 3)) * Scale)
                                   ELSE rows[i].priceUsd]], Len(rows))

(***************************************************************************)
(* DataQualityChecker (quality_check.py).  A gate table is the DataFrame   *)
(* read from the raw CSV: its column names in file order and its rows,     *)
(* each row a map from column name to raw field.  A raw field is a decimal *)
(* number, an integer literal, a timestamp text, an empty field or other   *)
(* text.  Timestamps are minutes; percentages are compared exactly, by     *)
(* cross-multiplication.                                                   *)
(***************************************************************************)
RawInt(x) == [k |-> "int", v |-> x]
RawTime(t) == [k |-> "time", v |-> t]

Len_df(gt) == Len(gt.rows)
HasColumn(gt, c) == \E i \in 1..Len(gt.names) : gt.names[i] = c
Cells(gt, c) == Col([i \in 1..Len_df(gt) |-> gt.rows[i][c]], Len_df(gt))
IsNull(c) == c.k = "empty"
IsText(c) == c.k \in {"text", "time"}
IsNumber(c) == c.k \in {"num", "int"}

\* str(df[col].dtype) as read_csv infers it
Dtype(cells) ==
    CASE Len(cells) = 0 -> "object"
      [] \E i \in 1..Len(cells) : IsText(cells[i]) -> "object"
      [] \A i \in 1..Len(cells) : cells[i].k = "int" -> "int64"
      [] OTHER -> "float64"

expected_schema ==
    << <<"timestamp", "object">>, <<"open", "float64">>, <<"high", "float64">>,
       <<"low", "float64">>, <<"close", "float64">>, <<"volume", "float64">>,
       <<"volume_usd", "float64">> >>
required_columns == {"timestamp", "open", "high", "low", "close", "volume"}

NullCount(gt, c) == Cardinality({i \in 1..Len_df(gt) : IsNull(gt.rows[i][c])})

\* a variant that reports the columns below the threshold
check_null_values_below(gt, null_threshold) ==
    LET n == Len_df(gt)
        Under(c) == n > 0 /\ NullCount(gt, c) * 10000 < null_threshold * n
        failed == SelectSeq(gt.names, Under)
    IN  [check |-> "null_values",
         passed |-> Len(failed) = 0,
         threshold |-> null_threshold,
         failed_columns |-> Col([i \in 1..Len(failed) |->
                                   [column |-> failed[i],
                                    null_count |-> NullCount(gt, failed[i])]], Len(failed)),
         total_nulls |-> 0]
\* a variant that fails a column exactly at the threshold
check_null_values_inclusive(gt, null_threshold) ==
    LET n == Len_df(gt)
        AtOrOver(c) == n > 0 /\ NullCount(gt, c) > 0
                       /\ NullCount(gt, c) * 10000 >= null_threshold * n
        failed == SelectSeq(gt.names, AtOrOver)
    IN  [check |-> "null_values",
         passed |-> Len(failed) = 0,
         threshold |-> null_threshold,
         failed_columns |-> Col([i \in 1..Len(failed) |->
                                   [column |-> failed[i],
                                    null_count |-> NullCount(gt, failed[i])]], Len(failed)),
         total_nulls |-> 0]

check_null_values(gt, null_threshold) ==
    LET n == Len_df(gt)
        \* null_percentages[col] > null_threshold * 100, the threshold held in
        \* basis points (0.01 is 100); with no rows the percentage is NaN and
        \* the comparison is false
        Exceeds(c) == n > 0 /\ NullCount(gt, c) * 10000 > null_threshold * n
        failed == SelectSeq(gt.names, Exceeds)
        failed_columns == Col([i \in 1..Len(failed) |->
                               [column |-> failed[i],
                                null_count |-> NullCount(gt, failed[i])]], Len(failed))
    IN  [check |-> "null_values",
         passed |-> Len(failed_columns) = 0,
         threshold |-> null_threshold,
         failed_columns |-> failed_columns,
         total_nulls |-> Cardinality({<<i, j>> \in (1..n) \X (1..Len(gt.names)) :
                                         IsNull(gt.rows[i][gt.names[j]])})]

\* a variant that rejects extra columns in every mode
check_schema_always_strict(gt, schema_strict) ==
    LET cols == SeqToSet(gt.names)
        missing_columns == required_columns \ cols
        extra_columns == cols \ {expected_schema[i][1] : i \in 1..Len(expected_schema)}
        Mismatch(e) == e[1] \in cols /\ Dtype(Cells(gt, e[1])) # e[2]
        bad == SelectSeq(expected_schema, Mismatch)
    IN  [check |-> "schema_validation",
         passed |-> missing_columns = {} /\ Len(bad) = 0 /\ extra_columns = {},
         missing_columns |-> missing_columns,
         extra_columns |-> extra_columns,
         dtype_mismatches |-> Col([i \in 1..Len(bad) |->
                                     [column |-> bad[i][1], expected |-> bad[i][2],
                                      actual |-> Dtype(Cells(gt, bad[i][1]))]], Len(bad))]

check_schema(gt, schema_strict) ==
    LET cols == SeqToSet(gt.names)
        missing_columns == required_columns \ cols
        extra_columns == cols \ {expected_schema[i][1] : i \in 1..Len(expected_schema)}
        Mismatch(e) == e[1] \in cols /\ Dtype(Cells(gt, e[1])) # e[2]
        bad == SelectSeq(expected_schema, Mismatch)
        dtype_mismatches == Col([i \in 1..Len(bad) |->
                                 [column |-> bad[i][1], expected |-> bad[i][2],
                                  actual |-> Dtype(Cells(gt, bad[i][1]))]], Len(bad))
    IN  [check |-> "schema_validation",
         passed |-> /\ missing_columns = {}
                    /\ Len(dtype_mismatches) = 0
                    /\ (~schema_strict \/ extra_columns = {}),
         missing_columns |-> missing_columns,
         extra_columns |-> extra_columns,
         dtype_mismatches |-> dtype_mismatches]

\* twice the median of the numbers of a column, NaN when it has none
Median2(cells) ==
    LET present == {i \in 1..Len(cells) : IsNumber(cells[i])}
        m == Cardinality(present)
        vals == {cells[i].v : i \in present}
        Below(x) == Cardinality({i \in present : cells[i].v < x})
        UpTo(x) == Cardinality({i \in present : cells[i].v <= x})
        Kth(k) == CHOOSE x \in vals : Below(x) < k /\ k <= UpTo(x)
    IN  IF m = 0 THEN NaN
        ELSE IF m % 2 = 1 THEN Num(2 * Kth((m + 1) \div 2))
        ELSE Num(Kth(m \div 2) + Kth(m \div 2 + 1))

\* pd.to_datetime(df['timestamp']) raises on text that is no timestamp
timestamps_parse(gt) == \A i \in 1..Len_df(gt) : gt.rows[i]["timestamp"].k # "text"
\* df['close'] <= 0 raises TypeError when the column holds text
close_compares(gt) == \A i \in 1..Len_df(gt) : ~IsText(gt.rows[i]["close"])

ranges_raises(gt) == HasColumn(gt, "close") /\ ~close_compares(gt)

check_data_ranges(gt) ==
    LET n == Len_df(gt)
        close == Cells(gt, "close")
        negative_prices == {i \in 1..n : IsNumber(close[i]) /\ close[i].v <= 0}
        median2 == Median2(close)
        \* close > median * 5  or  close < median / 5
        outliers == {i \in 1..n : /\ IsNumber(close[i]) /\ IsNum(median2)
                                  /\ \/ 2 * close[i].v > 5 * median2.v
                                     \/ 10 * close[i].v < median2.v}
        v1 == IF HasColumn(gt, "close") /\ Cardinality(negative_prices) > 0
              THEN <<[column |-> "close", issue |-> "negative_or_zero_values",
                      count |-> Cardinality(negative_prices)]>>
              ELSE <<>>
        \* len(outliers) > len(df) * 0.05
        v2 == IF HasColumn(gt, "close") /\ Cardinality(outliers) * 100 > n * 5
              THEN <<[column |-> "close", issue |-> "excessive_outliers",
                      count |-> Cardinality(outliers)]>>
              ELSE <<>>
        v3 == IF HasColumn(gt, "timestamp") /\ ~timestamps_parse(gt)
              THEN <<[column |-> "timestamp", issue |-> "invalid_timestamp_format",
                      count |-> 1]>>
              ELSE <<>>
        range_violations == v1 \o v2 \o v3
    IN  [check |-> "data_ranges",
         passed |-> Len(range_violations) = 0,
         violations |-> range_violations]

max_age_hours == 48
freshness_raises(gt) == HasColumn(gt, "timestamp") /\ ~timestamps_parse(gt)

\* pd.to_datetime(df['timestamp']).max(): NaT when no row has a timestamp
latest_date(gt) ==
    LET ts == {gt.rows[i]["timestamp"].v :
                  i \in {j \in 1..Len_df(gt) : gt.rows[j]["timestamp"].k = "time"}}
    IN  IF ts = {} THEN NaN ELSE Num(SetMax(ts))

check_data_freshness(gt, now) ==
    IF ~HasColumn(gt, "timestamp")
    THEN [check |-> "data_freshness", passed |-> TRUE, note |-> "No timestamp column"]
    ELSE LET latest == latest_date(gt)
             age_minutes == FSub(Num(now), latest)
         IN  [check |-> "data_freshness",
              \* age_hours <= max_age_hours; false when the age is NaN
              passed |-> IsNum(age_minutes) /\ age_minutes.v <= 60 * max_age_hours,
              latest_data_time |-> latest,
              current_time |-> now,
              age_minutes |-> age_minutes,
              threshold_hours |-> max_age_hours]

check_duplicates(gt) ==
    LET n == Len_df(gt)
        duplicate_count == Cardinality({i \in 1..n :
                               \E j \in 1..(i - 1) : gt.rows[j] = gt.rows[i]})
    IN  [check |-> "duplicates",
         \* duplicate_percentage <= 0.5; NaN, hence false, with no rows
         passed |-> n > 0 /\ duplicate_count * 200 <= n,
         duplicate_count |-> duplicate_count]

\* a variant whose boundary is exclusive
check_data_volume_exclusive(gt) ==
    [check |-> "data_volume",
     passed |-> Len_df(gt) > 100,
     row_count |-> Len_df(gt),
     min_required |-> 100]

min_rows == 100
check_data_volume(gt) ==
    [check |-> "data_volume",
     passed |-> Len_df(gt) >= min_rows,
     row_count |-> Len_df(gt),
     min_required |-> min_rows]

\* a variant that treats the freshness check as advisory
all_passed_advisory(checks) ==
    \A i \in 1..Len(checks) : checks[i].check # "data_freshness" => checks[i].passed
all_passed(checks) == \A i \in 1..Len(checks) : checks[i].passed
passed_checks(checks) == Cardinality({i \in 1..Len(checks) : checks[i].passed})
failed_checks(checks) == Cardinality({i \in 1..Len(checks) : ~checks[i].passed})
complete_report(gt, checks) ==
    [overall_status |-> IF all_passed(checks) THEN "PASSED" ELSE "FAILED",
     total_checks |-> Len(checks),
     passed_checks |-> passed_checks(checks),
     failed_checks |-> failed_checks(checks),
     checks |-> checks,
     dataset_info |-> [rows |-> Len_df(gt), columns |-> Len(gt.names),
                       column_names |-> gt.names]]

(***************************************************************************)
(* Input tables of the gate runs.                                          *)
(***************************************************************************)
\* timestamp of the newest row of a table
LastStamp == 100000
GateColumns == <<"timestamp", "open", "high", "low", "close", "volume", "volume_usd">>
GatePrice(i) == (100 + (i % 7)) * Scale
GateBaseRow(n, i) ==
    [timestamp |-> RawTime(LastStamp - 5 * (n - i)),
     open |-> RawNum(GatePrice(i) - 1),
     high |-> RawNum(GatePrice(i) + Scale),
     low |-> RawNum(GatePrice(i) - Scale),
     close |-> RawNum(GatePrice(i)),
     volume |-> RawNum(Scale \div 2 + i),
     volume_usd |-> RawNum(GatePrice(i) * 3)]
GateRow(g, i) ==
    LET b == GateBaseRow(g.n, i)
        hit == i <= g.k
    IN  CASE hit /\ g.defect = "nulls" -> [b EXCEPT !.volume = RawEmpty]
          [] hit /\ g.defect = "dups" -> GateBaseRow(g.n, g.n)
          [] hit /\ g.defect = "outliers" -> [b EXCEPT !.close = RawNum(1000 * Scale)]
          [] hit /\ g.defect = "nonpositive" -> [b EXCEPT !.close = RawNum(0)]
          [] hit /\ g.defect = "text_close" -> [b EXCEPT !.close = RawText]
          [] hit /\ g.defect = "bad_ts" -> [b EXCEPT !.timestamp = RawText]
          [] g.defect = "null_ts" /\ i > g.n - g.k -> [b EXCEPT !.timestamp = RawEmpty]
          [] g.defect = "int_volume" -> [b EXCEPT !.volume = RawInt(i * Scale)]
          [] g.defect = "extra_col" -> b @@ [market_cap |-> RawNum(Scale)]
          [] OTHER -> b
Without(names, c) == SelectSeq(names, LAMBDA x : x # c)
GateNames(g) ==
    CASE g.defect = "no_ts" -> Without(GateColumns, "timestamp")
      [] g.defect = "no_close" -> Without(GateColumns, "close")
      [] g.defect = "no_volume_usd" -> Without(GateColumns, "volume_usd")
      [] g.defect = "extra_col" -> GateColumns \o <<"market_cap">>
      [] OTHER -> GateColumns
MakeGateTable(g) ==
    LET names == GateNames(g)
    IN  [names |-> names,
         rows |-> Col([i \in 1..g.n |->
                       Table([c \in SeqToSet(names) |-> GateRow(g, i)[c]])], g.n)]

SingleDefects == {"nonpositive", "text_close", "bad_ts", "null_ts", "no_ts", "no_close",
                  "no_volume_usd", "extra_col", "int_volume"}
GateInputs ==
    {[n |-> m, defect |-> "none", k |-> 0] : m \in {0, min_rows - 1, min_rows, 2 * min_rows}}
    \cup {[n |-> min_rows, defect |-> "nulls", k |-> j] : j \in {1, 2, 5, 6}}
    \cup {[n |-> 2 * min_rows, defect |-> "nulls", k |-> j] : j \in {2, 3}}
    \cup {[n |-> 2 * min_rows, defect |-> "dups", k |-> j] : j \in {1, 2}}
    \cup {[n |-> min_rows, defect |-> d, k |-> 1] : d \in {"dups", "outliers"}}
    \cup {[n |-> min_rows, defect |-> "outliers", k |-> j] : j \in {5, 6}}
    \cup {[n |-> min_rows, defect |-> d, k |-> 1] : d \in SingleDefects}
    \cup {[n |-> 1, defect |-> "null_ts", k |-> 1]}
\* self.null_threshold, in basis points
Thresholds == {0, 100, 500}
\* the checkers constructed: the default one, the one of the DAG and of main()
\* (null_threshold=0.01, schema_strict=False), and two other thresholds
Configs ==
    {[null_threshold |-> 100, schema_strict |-> TRUE],
     [null_threshold |-> 100, schema_strict |-> FALSE],
     [null_threshold |-> 0, schema_strict |-> TRUE],
     [null_threshold |-> 500, schema_strict |-> FALSE]}
\* readings of datetime.now()
Clock == {LastStamp + 60 * max_age_hours + d : d \in {-1, 0, 1}}

(***************************************************************************)
(* State.                                                                  *)
(***************************************************************************)
VARIABLES
    t_pc,           \* position inside CryptoFeatureEngineer.transform
    raw,            \* rows of the input CSV, in file order
    horizon,        \* self.prediction_horizon
    df,             \* the table transform is working on
    index,          \* pandas index labels of the rows of df (rows after the sort)
    feature_names,  \* self.feature_names
    df_final,       \* the table written to the output CSV
    pre,            \* history: the table handed to clean_features in this run
    run,            \* 1 in the first call of transform, 2 in the second
    prev            \* history: what the first call produced

VARIABLES
    g_pc,           \* position inside DataQualityChecker.run_all_checks
    g_df,           \* the table handed to run_all_checks
    null_threshold, \* self.null_threshold, in basis points
    schema_strict,  \* self.schema_strict
    checks,         \* the reports of the checks that have returned, in order
    result,         \* what run_all_checks returned
    g_run,          \* 1 in the first call of run_all_checks, 2 in the second
    g_prev          \* history: the table and the result of the first call

VARIABLES
    api,            \* what the history endpoint answers in this DAG run
    d_now,          \* the wall clock of the DAG run, in minutes
    ti,             \* state of the task instance of each task of the DAG run
    try_number,     \* tries of each task started so far
    xcom,           \* the XCom values pushed in this DAG run, by key
    raw_file,       \* the raw CSV written by extract_and_save
    q_pc,           \* position inside the callable quality_check
    q_passed,       \* passed, as run_all_checks returned it to quality_check
    reports,        \* overall_status of the quality reports saved, in order
    rejected,       \* history: a gate run of this DAG run returned passed = False
    processed       \* the processed CSV has been written

tvars == <<t_pc, raw, horizon, df, index, feature_names, df_final, pre, run, prev>>
gvars == <<g_pc, g_df, null_threshold, schema_strict, checks, result, g_run, g_prev>>
dvars == <<api, d_now, ti, try_number, xcom, raw_file, q_pc, q_passed, reports, rejected,
           processed>>
VARIABLES
    e_pc,           \* position inside CryptoCompareExtractor.extract_and_save
    e_body,         \* the JSON body the histohour endpoint sends with status 200
    attempt,        \* the loop variable of _make_request
    e_log,          \* history: the statuses of the attempts of the latest call
    requests_made,  \* self.requests_made
    response,       \* what _make_request returned
    current_data,   \* what fetch_current_price returned
    historical_df,  \* what fetch_historical_data returned
    e_files,        \* the files in output_dir
    e_ret           \* what extract_and_save returned

evars == <<e_pc, e_body, attempt, e_log, requests_made, response, current_data,
           historical_df, e_files, e_ret>>
VARIABLES
    s_pc,           \* position inside VolatilityPredictor.train_and_log
    s_df,           \* the processed table: one feature value per row
    test_size,      \* the test_size argument, in percent
    val_size,       \* the val_size argument, in percent
    X_train,        \* the rows of the train part
    X_val,          \* the rows of the validation part
    X_test,         \* the rows of the test part
    tr_scaler,      \* self.scaler of the predictor
    X_scaled        \* what scale_features returned

svars == <<s_pc, s_df, test_size, val_size, X_train, X_val, X_test, tr_scaler, X_scaled>>
VARIABLES
    a_pc,             \* the API process: before startup, serving, or a request answered
    mm_model,         \* model_manager.model
    mm_scaler,        \* model_manager.scaler
    mm_feature_names, \* model_manager.feature_names
    mm_feature_stats, \* model_manager.feature_stats
    drift_threshold,  \* model_manager.drift_threshold, in percent
    a_request,        \* the features of the latest POST /predict
    a_reply,          \* the answer to the latest POST /predict
    a_computed        \* history: the latest request reached the model's predict

avars == <<a_pc, mm_model, mm_scaler, mm_feature_names, mm_feature_stats,
           drift_threshold, a_request, a_reply, a_computed>>
\* the variables of the components other than the feature pipeline and the gate
ovars == <<dvars, evars, svars, avars>>
vars == <<tvars, gvars, ovars>>
\* what a step of the DAG run, of the extraction, of the training and of the
\* API leaves alone
not_dag == <<tvars, gvars, evars, svars, avars>>
not_extract == <<tvars, gvars, dvars, svars, avars>>
not_train == <<tvars, gvars, dvars, evars, avars>>
not_api == <<tvars, gvars, dvars, evars, svars>>

NoGateTable == [names |-> <<>>, rows |-> <<>>]
NoResult == [all_passed |-> FALSE, report |-> [checks |-> <<>>]]
NoGatePrev == [df |-> NoGateTable, result |-> NoResult]
Tasks == <<"extract_data", "quality_check", "transform_data", "train_model",
           "version_with_dvc", "log_pipeline_metrics">>
TaskIds == {Tasks[i] : i \in 1..Len(Tasks)}
NoApi == [fields |-> "coincap", n |-> 0, defect |-> "none", k |-> 0]
\* no DAG run in progress
DagIdle ==
    /\ api = NoApi
    /\ d_now = 0
    /\ ti = [t \in TaskIds |-> "none"]
    /\ try_number = [t \in TaskIds |-> 0]
    /\ xcom = <<>>
    /\ raw_file = NoGateTable
    /\ q_pc = "off"
    /\ q_passed = FALSE
    /\ reports = <<>>
    /\ rejected = FALSE
    /\ processed = FALSE
\* None, as a response, a price record, a DataFrame or a path
None == [some |-> FALSE]
NoBody == [kind |-> "error", n |-> 0, order |-> "asc"]
\* no extraction in progress
ExtractIdle ==
    /\ e_pc = "off"
    /\ e_body = NoBody
    /\ attempt = 0
    /\ e_log = <<>>
    /\ requests_made = 0
    /\ response = None
    /\ current_data = None
    /\ historical_df = None
    /\ e_files = {}
    /\ e_ret = None
\* no training in progress
TrainIdle ==
    /\ s_pc = "off"
    /\ s_df = <<>>
    /\ test_size = 20
    /\ val_size = 20
    /\ X_train = <<>>
    /\ X_val = <<>>
    /\ X_test = <<>>
    /\ tr_scaler = None
    /\ X_scaled = None
NoReply == [status |-> 0]
\* the API process is not running
ApiIdle ==
    /\ a_pc = "off"
    /\ mm_model = None
    /\ mm_scaler = None
    /\ mm_feature_names = None
    /\ mm_feature_stats = None
    /\ drift_threshold = 15
    /\ a_request = <<>>
    /\ a_reply = NoReply
    /\ a_computed = FALSE
\* the components other than the feature pipeline and the gate are idle
RestIdle == DagIdle /\ ExtractIdle /\ TrainIdle /\ ApiIdle

\* no gate run in progress
GateIdle ==
    /\ g_pc = "off"
    /\ g_df = NoGateTable
    /\ null_threshold = 100
    /\ schema_strict = TRUE
    /\ checks = <<>>
    /\ result = NoResult
    /\ g_run = 1
    /\ g_prev = NoGatePrev

EmptyTable == [date |-> <<>>, priceUsd |-> <<>>]
NoPrev == [raw |-> <<>>, pre |-> EmptyTable, index |-> <<>>, names |-> <<>>,
           final |-> EmptyTable]

InitTransform ==
    /\ \E inp \in Inputs : raw = MakeRaw(inp) /\ horizon = inp.h
    /\ t_pc = "load"
    /\ df = EmptyTable
    /\ index = <<>>
    /\ feature_names = <<>>
    /\ df_final = EmptyTable
    /\ pre = EmptyTable
    /\ run = 1
    /\ prev = NoPrev
    /\ GateIdle
    /\ RestIdle

(***************************************************************************)
(* transform(): one action per statement of its body.                      *)
(***************************************************************************)
LoadRawData ==
    /\ t_pc = "load"
    /\ IF load_raises(raw)
       THEN /\ t_pc' = "raised"
            /\ UNCHANGED <<df, index>>
       ELSE /\ t_pc' = "price"
            /\ df' = load_raw_data(raw)
            /\ index' = Col([i \in 1..Len(raw) |-> i], Len(raw))
    /\ UNCHANGED <<raw, horizon, feature_names, df_final, pre, run, prev, gvars, ovars>>

Stage(from, to, table) ==
    /\ t_pc = from
    /\ t_pc' = to
    /\ df' = table
    /\ UNCHANGED <<raw, horizon, index, feature_names, df_final, pre, run, prev, gvars, ovars>>

CreatePriceFeatures == Stage("price", "volatility", create_price_features(df))
CreateVolatilityFeatures == Stage("volatility", "momentum", create_volatility_features(df))
CreateMomentumFeatures == Stage("momentum", "temporal", create_momentum_features(df))
CreateTemporalFeatures == Stage("temporal", "lag", create_temporal_features(df))
CreateLagFeatures == Stage("lag", "target", create_lag_features(df))
CreateTargetVariable == Stage("target", "clean", create_target_variable(df, horizon))

CleanFeatures ==
    /\ t_pc = "clean"
    /\ t_pc' = "select"
    /\ pre' = df
    /\ df' = clean_features(df)
    /\ index' = LET kept == clean_rows(df)
                 IN  Col([j \in 1..Len(kept) |-> index[kept[j]]], Len(kept))
    /\ UNCHANGED <<raw, horizon, feature_names, df_final, run, prev, gvars, ovars>>

\* select_features, df[final_cols] and to_csv
SelectFeatures ==
    /\ t_pc = "select"
    /\ t_pc' = "done"
    /\ feature_names' = select_features(df)
    /\ df_final' = Project(df, final_cols(select_features(df)))
    /\ UNCHANGED <<raw, horizon, df, index, pre, run, prev, gvars, ovars>>

\* the second series of a pair: how it differs from the first
Variants(n) ==
    {v \in {[mode |-> "same", cut |-> n],
            [mode |-> "cut", cut |-> n - 1],
            [mode |-> "suffix", cut |-> n - RowsPerHour - 2]} : v.cut >= 1 \/ v.mode = "same"}

\* a second call of transform on the same engineer, with the second series
TransformAgain ==
    /\ t_pc = "done"
    /\ run = 1
    /\ run' = 2
    /\ \E v \in Variants(Len(raw)) : raw' = Perturb(raw, v.cut, v.mode)
    /\ prev' = [raw |-> raw, pre |-> pre, index |-> index, names |-> feature_names,
                final |-> df_final]
    /\ t_pc' = "load"
    /\ UNCHANGED <<horizon, df, index, feature_names, df_final, pre, gvars, ovars>>

NextTransform ==
    \/ LoadRawData
    \/ CreatePriceFeatures
    \/ CreateVolatilityFeatures
    \/ CreateMomentumFeatures
    \/ CreateTemporalFeatures
    \/ CreateLagFeatures
    \/ CreateTargetVariable
    \/ CleanFeatures
    \/ SelectFeatures
    \/ TransformAgain

SpecTransform == InitTransform /\ [][NextTransform]_vars

(***************************************************************************)
(* run_all_checks(): one action per check of its list, in the order of the *)
(* list, and one for the aggregation that follows.  A check that raises    *)
(* ends the call.                                                          *)
(***************************************************************************)
TransformIdle ==
    /\ t_pc = "off"
    /\ raw = <<>>
    /\ horizon = 1
    /\ df = EmptyTable
    /\ index = <<>>
    /\ feature_names = <<>>
    /\ df_final = EmptyTable
    /\ pre = EmptyTable
    /\ run = 1
    /\ prev = NoPrev

InitGate ==
    /\ \E g \in GateInputs : g_df = MakeGateTable(g)
    /\ \E c \in Configs :
          null_threshold = c.null_threshold /\ schema_strict = c.schema_strict
    /\ g_pc = "volume"
    /\ checks = <<>>
    /\ result = NoResult
    /\ g_run = 1
    /\ g_prev = NoGatePrev
    /\ TransformIdle
    /\ RestIdle

Returns(from, to, report) ==
    /\ g_pc = from
    /\ g_pc' = to
    /\ checks' = Append(checks, report)
    /\ UNCHANGED <<g_df, null_threshold, schema_strict, result, g_run, g_prev, tvars, ovars>>
Raises(from) ==
    /\ g_pc = from
    /\ g_pc' = "raised"
    /\ UNCHANGED <<g_df, null_threshold, schema_strict, checks, result, g_run, g_prev, tvars, ovars>>

CheckDataVolume == Returns("volume", "null", check_data_volume(g_df))
CheckNullValues == Returns("null", "schema", check_null_values(g_df, null_threshold))
CheckSchema == Returns("schema", "ranges", check_schema(g_df, schema_strict))
CheckDataRanges ==
    IF ranges_raises(g_df)
    THEN Raises("ranges")
    ELSE Returns("ranges", "duplicates", check_data_ranges(g_df))
CheckDuplicates == Returns("duplicates", "freshness", check_duplicates(g_df))
CheckDataFreshness ==
    IF freshness_raises(g_df)
    THEN Raises("freshness")
    ELSE \E now \in Clock :
            Returns("freshness", "aggregate", check_data_freshness(g_df, now))
RunAllChecksReturn ==
    /\ g_pc = "aggregate"
    /\ g_pc' = "returned"
    /\ result' = [all_passed |-> all_passed(checks),
                  report |-> complete_report(g_df, checks)]
    /\ UNCHANGED <<g_df, null_threshold, schema_strict, checks, g_run, g_prev, tvars, ovars>>

\* the second table of a pair: the same table, its rows in reverse order, or
\* (for a table of min_rows rows or more) its last min_rows - 1 rows
Reverse(q) == Col([i \in 1..Len(q) |-> q[Len(q) + 1 - i]], Len(q))
GateVariants(gt) ==
    {gt, [gt EXCEPT !.rows = Reverse(gt.rows)]}
    \cup (IF Len_df(gt) >= min_rows
          THEN {[gt EXCEPT !.rows = SubSeq(gt.rows, Len_df(gt) - min_rows + 2, Len_df(gt))]}
          ELSE {})

\* a second call of run_all_checks on the same checker, later
RunAllChecksAgain ==
    /\ g_pc = "returned"
    /\ g_run = 1
    /\ g_run' = 2
    /\ g_prev' = [df |-> g_df, result |-> result]
    /\ g_df' \in GateVariants(g_df)
    /\ g_pc' = "volume"
    /\ checks' = <<>>
    /\ UNCHANGED <<null_threshold, schema_strict, result, tvars, ovars>>

NextGate ==
    \/ CheckDataVolume
    \/ CheckNullValues
    \/ CheckSchema
    \/ CheckDataRanges
    \/ CheckDuplicates
    \/ CheckDataFreshness
    \/ RunAllChecksReturn
    \/ RunAllChecksAgain

SpecGate == InitGate /\ [][NextGate]_vars

(***************************************************************************)
(* Properties of the quality gate.                                         *)
(***************************************************************************)
CheckNames == <<"data_volume", "null_values", "schema_validation", "data_ranges",
                "duplicates", "data_freshness">>
\* the check called `name` is in the returned report and passed
Passes(name) ==
    \E i \in 1..Len(result.report.checks) :
        result.report.checks[i].check = name /\ result.report.checks[i].passed
\* the reports in the returned report are those of the six checks on g_df
ReportsOfTable ==
    LET c == result.report.checks
    IN  /\ c[1] = check_data_volume(g_df)
        /\ c[2] = check_null_values(g_df, null_threshold)
        /\ c[3] = check_schema(g_df, schema_strict)
        /\ c[4] = check_data_ranges(g_df)
        /\ c[5] = check_duplicates(g_df)
        /\ \E now \in Clock : c[6] = check_data_freshness(g_df, now)

\* C1: when run_all_checks returns, its verdict is true exactly when all six
\* checks (volume, nulls, schema, ranges, duplicates, freshness) passed on the
\* table; the report lists the six checks in that order, counts the passing
\* and the failing ones, the two counts adding up to total_checks = 6, and
\* its overall_status is 'PASSED' exactly when the verdict is true.
C1_AggregateVerdict ==
    g_pc = "returned" =>
        LET r == result.report
            passing == {i \in 1..Len(CheckNames) : Passes(CheckNames[i])}
        IN  /\ Len(r.checks) = 6
            /\ \A i \in 1..6 : r.checks[i].check = CheckNames[i]
            /\ ReportsOfTable
            /\ result.all_passed = (passing = 1..6)
            /\ r.total_checks = 6
            /\ r.passed_checks = Cardinality(passing)
            /\ r.failed_checks = 6 - Cardinality(passing)
            /\ r.passed_checks + r.failed_checks = r.total_checks
            /\ r.overall_status = (IF result.all_passed THEN "PASSED" ELSE "FAILED")
\* a table that fails the freshness check only is rejected
C1_Witness ==
    /\ g_pc = "returned"
    /\ \A i \in 1..5 : Passes(CheckNames[i])
    /\ ~Passes("data_freshness")
    /\ ~result.all_passed
    /\ result.report.overall_status = "FAILED"
    /\ result.report.passed_checks = 5
\* a table that passes the six checks is accepted
C1_AllPass ==
    /\ g_pc = "returned"
    /\ result.all_passed
    /\ result.report.overall_status = "PASSED"

\* C2 as stated: run_all_checks raises on no input table.
C2_AsStated == g_pc # "raised"
\* the inputs of the claim that do return: the empty table and the tables
\* without a timestamp or a close column
C2_Returns ==
    (g_pc = "aggregate" /\ (Len_df(g_df) = 0 \/ ~HasColumn(g_df, "timestamp")
                                              \/ ~HasColumn(g_df, "close")))
        => Len(checks) = 6

\* the pass flags of the six checks in a returned report
Flags(res) == [i \in 1..Len(res.report.checks) |-> res.report.checks[i].passed]

\* C11 as stated: a second run of run_all_checks on the same table with the
\* same configuration gives the verdict and the six pass flags of the first,
\* whatever the times of the two runs.
C11_AsStated ==
    (g_pc = "returned" /\ g_run = 2 /\ g_df = g_prev.df) =>
        /\ result.all_passed = g_prev.result.all_passed
        /\ Flags(result) = Flags(g_prev.result)
\* what does hold: the five checks that read no clock repeat their flags
C11_ClockFreeChecks ==
    (g_pc = "returned" /\ g_run = 2 /\ g_df = g_prev.df) =>
        \A i \in 1..5 : Flags(result)[i] = Flags(g_prev.result)[i]

FailedColumns(report) ==
    {report.failed_columns[i].column : i \in 1..Len(report.failed_columns)}
\* C12 (gate monotonicity): on the table of the run, the null check that
\* passes with a threshold passes with every higher one, and the columns
\* reported with the higher threshold are among those reported with the lower.
C12_ThresholdMonotone ==
    g_pc = "schema" =>
        /\ checks[2] = check_null_values(g_df, null_threshold)
        /\ \A t1 \in Thresholds \cup {null_threshold} :
              \A t2 \in {t \in Thresholds \cup {null_threshold} : t >= t1} :
                 LET r1 == check_null_values(g_df, t1)
                     r2 == check_null_values(g_df, t2)
                 IN  /\ r1.passed => r2.passed
                     /\ FailedColumns(r2) \subseteq FailedColumns(r1)
\* the null check has failed, and a higher threshold lets the table pass
C12_Witness ==
    /\ g_pc = "schema"
    /\ ~checks[2].passed
    /\ \E t2 \in Thresholds : t2 > null_threshold /\ check_null_values(g_df, t2).passed

\* the second table is the first without some leading rows
ShorterOnly(a, b) ==
    /\ a.names = b.names
    /\ Len_df(a) < Len_df(b)
    /\ a.rows = SubSeq(b.rows, Len_df(b) - Len_df(a) + 1, Len_df(b))
\* the two runs are of tables that differ in length only, the second below
\* min_rows and the first not, with the same outcome of the other five checks
VolumePair ==
    /\ g_pc = "returned" /\ g_run = 2
    /\ ShorterOnly(g_df, g_prev.df)
    /\ Len_df(g_df) < min_rows /\ Len_df(g_prev.df) >= min_rows
    /\ \A i \in 2..6 : Flags(result)[i] = Flags(g_prev.result)[i]
FractionOver(gt, c, bp) ==
    Len_df(gt) > 0 /\ NullCount(gt, c) * 10000 > bp * Len_df(gt)
\* C14 (null check): the null check passes exactly when no column has a
\* missing fraction strictly above null_threshold, and failed_columns holds
\* exactly one entry for each column above it.
C14_NullCheck ==
    Len(checks) >= 2 =>
        LET r == checks[2]
            over == {c \in SeqToSet(g_df.names) : FractionOver(g_df, c, null_threshold)}
        IN  /\ r.check = "null_values"
            /\ r.passed = (over = {})
            /\ FailedColumns(r) = over
            /\ Len(r.failed_columns) = Cardinality(over)
            /\ \A i \in 1..Len(r.failed_columns) :
                  r.failed_columns[i].null_count = NullCount(g_df, r.failed_columns[i].column)
\* a column with missing cells, exactly at the threshold, passes
C14_Witness ==
    /\ g_pc = "schema"
    /\ checks[2].passed
    /\ \E c \in SeqToSet(g_df.names) :
          /\ NullCount(g_df, c) > 0
          /\ NullCount(g_df, c) * 10000 = null_threshold * Len_df(g_df)

ExpectedNames == {expected_schema[i][1] : i \in 1..Len(expected_schema)}
\* C15 (schema check): the schema check passes exactly when the required
\* columns are present, every present column of the expected type map has
\* its expected type and, in strict mode only, no column is outside the map;
\* the report lists each missing column, extra column and type mismatch.
C15_SchemaCheck ==
    Len(checks) >= 3 =>
        LET r == checks[3]
            cols == SeqToSet(g_df.names)
            wrong == {i \in 1..Len(expected_schema) :
                         /\ expected_schema[i][1] \in cols
                         /\ Dtype(Cells(g_df, expected_schema[i][1])) # expected_schema[i][2]}
        IN  /\ r.check = "schema_validation"
            /\ r.passed = (/\ \A c \in {"timestamp", "open", "high", "low", "close",
                                         "volume"} : c \in cols
                           /\ wrong = {}
                           /\ (schema_strict => cols \subseteq ExpectedNames))
            /\ r.missing_columns = {"timestamp", "open", "high", "low", "close",
                                    "volume"} \ cols
            /\ r.extra_columns = cols \ ExpectedNames
            /\ {r.dtype_mismatches[i].column : i \in 1..Len(r.dtype_mismatches)}
                  = {expected_schema[i][1] : i \in wrong}
            /\ Len(r.dtype_mismatches) = Cardinality(wrong)
\* a table with an extra column passes the schema check in non-strict mode
C15_Witness ==
    /\ g_pc = "ranges"
    /\ ~schema_strict
    /\ checks[3].extra_columns # {}
    /\ checks[3].passed

\* the numeric prices of the table, and the rows whose price is an outlier:
\* above 5 times the median or below a fifth of it
ClosePrices(gt) == {i \in 1..Len_df(gt) : IsNumber(gt.rows[i]["close"])}
OutlierRows(gt) ==
    LET med2 == Median2(Cells(gt, "close"))
    IN  {i \in ClosePrices(gt) :
            /\ IsNum(med2)
            /\ \/ 2 * gt.rows[i]["close"].v > 5 * med2.v
               \/ 10 * gt.rows[i]["close"].v < med2.v}
\* the three defects the range check is to report
RangeDefect(gt) ==
    \/ /\ HasColumn(gt, "close")
       /\ \/ \E i \in ClosePrices(gt) : gt.rows[i]["close"].v <= 0
          \/ Cardinality(OutlierRows(gt)) * 20 > Len_df(gt)
    \/ /\ HasColumn(gt, "timestamp")
       /\ \E i \in 1..Len_df(gt) : gt.rows[i]["timestamp"].k = "text"
\* C16 as stated: check_data_ranges returns, and fails exactly when a price
\* is <= 0, more than 5% of the rows are outliers, or a timestamp does not
\* parse.
C16_AsStated ==
    /\ ~(g_pc = "raised" /\ Len(checks) = 3)
    /\ Len(checks) >= 4 => checks[4].passed = ~RangeDefect(g_df)
\* what does hold: when check_data_ranges returns, its verdict is as stated
C16_WhenItReturns ==
    Len(checks) >= 4 => (checks[4].check = "data_ranges"
                         /\ checks[4].passed = ~RangeDefect(g_df))

\* the timestamps of the table that parse
Stamps(gt) ==
    {gt.rows[i]["timestamp"].v :
        i \in {j \in 1..Len_df(gt) : gt.rows[j]["timestamp"].k = "time"}}
\* C17 as stated: on a table with timestamps, check_data_freshness returns,
\* and passes exactly when the newest timestamp is at most 48 hours before
\* the time of the evaluation.
C17_AsStated ==
    (HasColumn(g_df, "timestamp") /\ Stamps(g_df) # {}) =>
        /\ ~(g_pc = "raised" /\ Len(checks) = 5)
        /\ Len(checks) >= 6 =>
              checks[6].passed = (checks[6].current_time - SetMax(Stamps(g_df)) <= 48 * 60)
\* what does hold: when check_data_freshness returns on such a table, its
\* verdict is as stated
C17_WhenItReturns ==
    (HasColumn(g_df, "timestamp") /\ Stamps(g_df) # {} /\ Len(checks) >= 6) =>
        checks[6].passed = (checks[6].current_time - SetMax(Stamps(g_df)) <= 48 * 60)

\* rows that are copies of an earlier row
RepeatedRows(gt) ==
    {i \in 1..Len_df(gt) : \E j \in 1..(i - 1) : gt.rows[j] = gt.rows[i]}
\* C18 as stated: check_duplicates passes exactly when the repeated rows are
\* at most 0.5% of the rows; a table without a repeated row passes.
C18_AsStated ==
    Len(checks) >= 5 =>
        /\ checks[5].passed = (Cardinality(RepeatedRows(g_df)) * 200 <= Len_df(g_df))
        /\ RepeatedRows(g_df) = {} => checks[5].passed
\* what does hold: the same on the tables that have rows
C18_NonEmpty ==
    (Len(checks) >= 5 /\ Len_df(g_df) > 0) =>
        /\ checks[5].passed = (Cardinality(RepeatedRows(g_df)) * 200 <= Len_df(g_df))
        /\ RepeatedRows(g_df) = {} => checks[5].passed


\* values of min_rows and max_age_hours a caller may want the gate to apply
RequestedMinRows == {min_rows \div 2, min_rows, 2 * min_rows}
RequestedMaxAge == {max_age_hours \div 2, max_age_hours, 2 * max_age_hours}
\* C21 as stated: an aggregate run wanted with min_rows = m and
\* max_age_hours = a decides the volume check by row count >= m and the
\* freshness check by age <= a, for values other than 100 and 48 as well.
C21_AsStated ==
    g_pc = "returned" =>
        \A m \in RequestedMinRows : \A a \in RequestedMaxAge :
            /\ checks[1].passed = (Len_df(g_df) >= m)
            /\ (HasColumn(g_df, "timestamp") /\ Stamps(g_df) # {}) =>
                  checks[6].passed =
                     (checks[6].current_time - SetMax(Stamps(g_df)) <= 60 * a)
\* what does hold: run_all_checks applies the defaults of the two checks,
\* and the checker has no other configuration than its two attributes
C21_DefaultsOnly ==
    g_pc = "returned" =>
        /\ checks[1].passed = (Len_df(g_df) >= 100)
        /\ checks[1].min_required = 100
        /\ (HasColumn(g_df, "timestamp") /\ Stamps(g_df) # {}) =>
              /\ checks[6].passed =
                    (checks[6].current_time - SetMax(Stamps(g_df)) <= 60 * 48)
              /\ checks[6].threshold_hours = 48
(***************************************************************************)
(* Properties of the feature pipeline.                                     *)
(***************************************************************************)
TargetCols == {"target_volatility", "target_volatility_norm"}
AfterLoad == {"price", "volatility", "momentum", "temporal", "lag", "target", "clean"}
\* number of leading rows on which two loaded series agree
AgreeLen(a, b) ==
    LET m == Min2(NRows(a), NRows(b))
        bad == {i \in 1..m : a["date"][i] # b["date"][i] \/ a["priceUsd"][i] # b["priceUsd"][i]}
    IN  IF bad = {} THEN m ELSE SetMin(bad) - 1
\* rows of the output table
OutRows == Len(df_final["date"])

\* C3 (causality): in the second run, every column the feature builders have
\* produced so far has, at each row up to which the two loaded series agree,
\* the value the first run computed there.
C3_Causality ==
    (run = 2 /\ t_pc \in AfterLoad) =>
        \A c \in DOMAIN df \ TargetCols :
            \A i \in 1..AgreeLen(df, prev.pre) : df[c][i] = prev.pre[c][i]
\* two series that agree past the warm-up and differ afterwards, all builders run
C3_Witness ==
    /\ run = 2 /\ t_pc = "target"
    /\ AgreeLen(df, prev.pre) > WarmUp
    /\ AgreeLen(df, prev.pre) < Min2(NRows(df), NRows(prev.pre))
    /\ \E c \in DOMAIN df : \E i \in 1..Min2(NRows(df), NRows(prev.pre)) :
          df[c][i] # prev.pre[c][i]

\* the raw rows are the n-row ramp price[i] = 100 + 0.1 * i at 5-minute spacing
IsRamp(n) ==
    /\ Len(raw) = n
    /\ horizon = 1
    /\ \A i \in 1..n : raw[i] = BaseRow("ramp", i)
ReturnCols == {"price_return_5m", "price_return_15m", "price_return_30m",
               "price_return_1h", "price_return_4h", "price_return_24h"}
ReturnsFinite == \A c \in ReturnCols : \A j \in 1..OutRows : IsNum(df_final[c][j])
RsiInRange ==
    \A j \in 1..OutRows :
        IsNum(df_final["rsi"][j]) /\ df_final["rsi"][j].v >= 0
        /\ df_final["rsi"][j].v <= 100 * Scale

\* C4 as stated: the 300-row ramp yields at least 300 - 48 - 12 rows.
C4_AsStated ==
    (t_pc = "done" /\ IsRamp(300)) =>
        (OutRows >= 300 - 48 - 12 /\ ReturnsFinite /\ RsiInRange)
\* C4 (end-to-end, amended): a ramp of n >= 300 rows yields n - 288 - 12 rows
\* (none for 300 rows: the 288-row lookback of price_return_24h sets the
\* warm-up), every return in the output is finite and every RSI is in [0,100].
C4_EndToEnd ==
    (t_pc = "done" /\ Len(raw) >= 300 /\ IsRamp(Len(raw))) =>
        (OutRows = Len(raw) - WarmUp - RowsPerHour /\ ReturnsFinite /\ RsiInRange)
C4_Witness == t_pc = "done" /\ IsRamp(300) /\ OutRows = 0

\* C5 (shift correctness): the label of row i is volatility_1h of row
\* i + 12 * horizon, missing past the end of the series; no row of the last
\* 12 * horizon rows is in the output, and an output label is the volatility
\* 12 * horizon rows after its row.
C5_ShiftCorrect ==
    LET s == RowsPerHour * horizon
    IN  /\ t_pc = "clean" =>
               \A i \in 1..NRows(df) :
                   df["target_volatility"][i] =
                       IF i + s <= NRows(df) THEN df["volatility_1h"][i + s] ELSE NaN
        /\ t_pc \in {"select", "done"} =>
               \A j \in 1..Len(index) :
                   /\ index[j] + s <= NRows(pre)
                   /\ df["target_volatility"][j] = pre["volatility_1h"][index[j] + s]
C5_Witness ==
    /\ t_pc = "done" /\ horizon = 2 /\ OutRows > 1
    /\ index[Len(index)] + RowsPerHour * horizon = NRows(pre)
    /\ df_final["target_volatility"][1] # df_final["target_volatility"][2]

\* C6 (rectangular output): every cell of the output table is a finite number,
\* its columns are the schema, the two labels and date, all of one length.
C6_OutputComplete ==
    t_pc = "done" =>
        /\ DOMAIN df_final = SeqToSet(feature_names) \cup TargetCols \cup {"date"}
        /\ \A c \in DOMAIN df_final :
              /\ Len(df_final[c]) = Len(index)
              /\ \A j \in 1..Len(index) : IsNum(df_final[c][j])
\* an output with rows, from a series in which a division by zero occurred
C6_Witness ==
    /\ t_pc = "done" /\ OutRows > 0
    /\ \E c \in DOMAIN pre : \E i \in 1..NRows(pre) : IsInf(pre[c][i]) /\ i \in SeqToSet(index)

\* a cell that survives the infinity replacement as a present value
Valid(a) == IsNum(a)
\* rows of the table handed to clean_features whose label is present
LabelValid == {i \in 1..NRows(pre) : Valid(pre["target_volatility"][i])}
Kept == SeqToSet(index)
\* column c has no valid cell in a label-valid row at or before row i
NothingToCarry(c, i) == \A k \in LabelValid : k <= i => ~Valid(pre[c][k])

\* C7 (what clean_features removes): a removed row has no label, or some
\* column has no valid value in any label-valid row up to it; the removed
\* label-valid rows are a leading prefix; the retained rows keep their order.
C7_RemovedRows ==
    t_pc \in {"select", "done"} =>
        /\ Kept \subseteq LabelValid
        /\ LET gone == LabelValid \ Kept
           IN  gone # {} =>
                  /\ \E c \in DOMAIN pre : NothingToCarry(c, SetMax(gone))
                  /\ \A k \in Kept : k > SetMax(gone)
        /\ \A j \in 1..(Len(index) - 1) :
              /\ index[j] < index[j + 1]
              /\ df["date"][j].v <= df["date"][j + 1].v
\* rows are removed from the warm-up, and a retained row holds a carried value
C7_Witness ==
    /\ t_pc = "done" /\ OutRows > 1
    /\ LabelValid \ Kept # {}
    /\ \E j \in 1..Len(index) : IsNaN(pre["priceUsd"][index[j]])

\* C8 as stated: the normalized label of an output row is the label of that
\* row divided by the price of that row (the price the row had when the label
\* was built, or the price it has in the cleaned table).
C8_AsStated ==
    t_pc = "done" =>
        \A j \in 1..OutRows :
            \/ df_final["target_volatility_norm"][j] =
                  FDiv(df_final["target_volatility"][j], pre["priceUsd"][index[j]])
            \/ df_final["target_volatility_norm"][j] =
                  FDiv(df_final["target_volatility"][j], df["priceUsd"][j])

RowBag(rows) ==
    [r \in SeqToSet(rows) |-> Cardinality({i \in 1..Len(rows) : rows[i] = r})]
LoadedRows ==
    Col([i \in 1..NRows(df) |-> [date |-> df["date"][i], priceUsd |-> df["priceUsd"][i]]],
        NRows(df))
ParsedRows ==
    Col([i \in 1..Len(raw) |->
            [date |-> ToDatetime(raw[i].date), priceUsd |-> ToNumeric(raw[i].priceUsd)]],
        Len(raw))
Denominators ==
    LET p == pre["priceUsd"]
        held == Ffill(p)
    IN  [price_return_5m |-> Shift(held, 1), price_return_15m |-> Shift(held, 3),
         price_return_30m |-> Shift(held, 6), price_return_1h |-> Shift(held, 12),
         price_return_4h |-> Shift(held, 48), price_return_24h |-> Shift(held, 288),
         price_to_ma5 |-> pre["ma_5"], price_to_ma12 |-> pre["ma_12"],
         price_to_ma48 |-> pre["ma_48"],
         cv_1h |-> pre["ma_12"], cv_4h |-> pre["ma_48"],
         hl_range_5m |-> pre["low_5m"], hl_range_1h |-> pre["low_1h"],
         roc_12 |-> Shift(p, 12), roc_48 |-> Shift(p, 48),
         target_volatility_norm |-> p]
\* the 14-row averages of the gains and of the losses (RSI divides by the latter)
AvgGain == RollMean(Gains(Diff(pre["priceUsd"])), 14, 14)
AvgLoss == RollMean(Losses(Diff(pre["priceUsd"])), 14, 14)
IsZero(a) == IsNum(a) /\ a.v = 0
\* the cells of feature c after the infinity replacement, before the fill
Replaced(c) ==
    Col([i \in 1..NRows(pre) |-> IF IsInf(pre[c][i]) THEN NaN ELSE pre[c][i]], NRows(pre))
ZeroDenominatorsMissing ==
    LET dens == Denominators
    IN  \A c \in DOMAIN dens :
            LET den == dens[c]
                val == Replaced(c)
            IN  \A i \in 1..NRows(pre) : IsZero(den[i]) => IsNaN(val[i])

\* C19 as stated: at every row where the denominator of a ratio feature is
\* zero (RSI included, which divides by the average loss), the feature is
\* the missing marker after the infinity replacement.
C19_AsStated ==
    t_pc = "select" =>
        /\ ZeroDenominatorsMissing
        /\ LET loss == AvgLoss
               rsi == Replaced("rsi")
           IN  \A i \in 1..NRows(pre) : IsZero(loss[i]) => IsNaN(rsi[i])
\* C19 (zero denominators, amended): at every row where the denominator of
\* a return, price-to-MA ratio, coefficient of variation, range ratio, rate
\* of change or normalized label is zero, the feature is the missing marker
\* after the infinity replacement; RSI, where the average loss is zero, is
\* 100 when the average gain is positive and the missing marker when it is
\* zero too.
C19_ZeroDenominators ==
    t_pc = "select" =>
        /\ ZeroDenominatorsMissing
        /\ LET loss == AvgLoss
               gain == AvgGain
               rsi == Replaced("rsi")
           IN  \A i \in 1..NRows(pre) :
                   IsZero(loss[i]) =>
                       rsi[i] = (IF IsZero(gain[i]) THEN NaN ELSE Num(100 * Scale))
\* a series with a run of zero prices: a moving average, a window minimum and
\* a lagged price are zero, and so is the average loss at a row with gains
C19_Witness ==
    /\ t_pc = "select"
    /\ \E i \in 1..NRows(pre) : IsZero(pre["ma_48"][i]) /\ IsZero(pre["low_5m"][i])
    /\ \E i \in 1..NRows(pre) : IsZero(pre["priceUsd"][i]) /\ IsNum(pre["target_volatility"][i])
    /\ \E i \in 13..NRows(pre) : IsZero(pre["priceUsd"][i - 12]) /\ ~IsZero(pre["priceUsd"][i])
    /\ LET loss == AvgLoss
           gain == AvgGain
       IN  /\ \E i \in 1..NRows(pre) : IsZero(loss[i]) /\ ~IsZero(gain[i])
           /\ \E i \in 1..NRows(pre) : IsZero(loss[i]) /\ IsZero(gain[i])

\* C20 (idempotence): clean_features applied to the table it returned
\* returns that table: same rows, same values.
C20_CleanIdempotent ==
    t_pc = "select" =>
        /\ clean_features(df) = df
        /\ clean_rows(df) = Col([j \in 1..NRows(df) |-> j], NRows(df))
\* a cleaned table with rows, from a table that lost rows and had cells filled
C20_Witness ==
    /\ t_pc = "select"
    /\ NRows(df) > 1 /\ NRows(df) < NRows(pre)
    /\ \E j \in 1..Len(index) : \E c \in DOMAIN pre :
          ~IsNum(pre[c][index[j]]) /\ IsNum(df[c][j])

\* the lookback of each return column, the window of each moving average,
\* the minimum of each rolling volatility, the window of each maximum/minimum
ReturnLookback ==
    {<<"price_return_5m", 1>>, <<"price_return_15m", 3>>, <<"price_return_30m", 6>>,
     <<"price_return_1h", 12>>, <<"price_return_4h", 48>>, <<"price_return_24h", 288>>}
AverageWindow == {<<"ma_5", 5>>, <<"ma_12", 12>>, <<"ma_48", 48>>, <<"ma_144", 144>>}
VolatilityMinimum ==
    {<<"volatility_5m", 2>>, <<"volatility_30m", 5>>, <<"volatility_1h", 5>>,
     <<"volatility_4h", 10>>}
ExtremeWindow == {<<"high_5m", 5>>, <<"low_5m", 5>>, <<"high_1h", 12>>, <<"low_1h", 12>>}
RECURSIVE PriceSum(_, _, _)
\* the sum of the prices of rows lo..hi
PriceSum(p, lo, hi) ==
    IF lo = hi THEN p[lo].v
    ELSE PriceSum(p, lo, (lo + hi) \div 2) + PriceSum(p, (lo + hi) \div 2 + 1, hi)
\* every price of the table is defined and not zero
PricesDefined(t) ==
    \A i \in 1..NRows(t) : IsNum(t["priceUsd"][i]) /\ t["priceUsd"][i].v # 0
\* C26 (rows counted from 1): before cleaning, on a series of defined
\* non-zero prices, the return over lookback k is undefined exactly at the
\* rows i <= k; each moving average is defined at every row and is the mean
\* of rows max(1, i-w+1)..i; each rolling volatility with minimum m is
\* undefined exactly at the rows i < m; each rolling maximum or minimum over
\* window w is undefined exactly at the rows i < w.
C26_WarmUp ==
    (t_pc = "momentum" /\ PricesDefined(df)) =>
        LET n == NRows(df)
            p == df["priceUsd"]
        IN  /\ \A e \in ReturnLookback :
                  LET col == df[e[1]]
                  IN  \A i \in 1..n : IsNum(col[i]) = (i > e[2])
            /\ \A e \in AverageWindow :
                  LET col == df[e[1]]
                  IN  \A i \in 1..n :
                         LET lo == IF i - e[2] + 1 > 1 THEN i - e[2] + 1 ELSE 1
                         IN  /\ IsNum(col[i])
                             /\ col[i].v = PriceSum(p, lo, i) \div (i - lo + 1)
            /\ \A e \in VolatilityMinimum :
                  LET col == df[e[1]]
                  IN  \A i \in 1..n : IsNum(col[i]) = (i >= e[2])
            /\ \A e \in ExtremeWindow :
                  LET col == df[e[1]]
                  IN  \A i \in 1..n : IsNum(col[i]) = (i >= e[2])
\* a series longer than the longest lookback, its builders run
C26_Witness ==
    /\ t_pc = "momentum"
    /\ PricesDefined(df)
    /\ NRows(df) > WarmUp
    /\ IsNaN(df["price_return_24h"][WarmUp])
    /\ IsNum(df["price_return_24h"][WarmUp + 1])
    /\ IsNaN(df["high_1h"][11]) /\ IsNum(df["high_1h"][12])
    /\ IsNaN(df["volatility_4h"][9]) /\ IsNum(df["volatility_4h"][10])

\* the price delta at row j, 0 where it is undefined
DeltaAt(p, j) ==
    IF j >= 2 /\ IsNum(p[j]) /\ IsNum(p[j - 1]) THEN p[j].v - p[j - 1].v ELSE 0
RECURSIVE RiseSum(_, _, _)
\* the sum of the rises among the deltas of rows lo..hi
RiseSum(p, lo, hi) ==
    IF lo > hi THEN 0
    ELSE (IF DeltaAt(p, hi) > 0 THEN DeltaAt(p, hi) ELSE 0) + RiseSum(p, lo, hi - 1)
RECURSIVE FallSum(_, _, _)
\* the sum of the falls among the deltas of rows lo..hi
FallSum(p, lo, hi) ==
    IF lo > hi THEN 0
    ELSE (IF DeltaAt(p, hi) < 0 THEN 0 - DeltaAt(p, hi) ELSE 0) + FallSum(p, lo, hi - 1)
\* 100 - 100 / (1 + g / l) for a mean rise g and a mean fall l
RsiFromMeans(g, l) ==
    IF l = 0 THEN (IF g = 0 THEN NaN ELSE Num(100 * Scale))
    ELSE Num(100 * Scale - (100 * Scale * Scale) \div (Scale + (g * Scale) \div l))
\* C27: wherever the RSI is defined it lies in [0, 100], and the RSI at row
\* i is a function of the 14 price deltas ending at row i alone (an undefined
\* delta counting as 0): it is undefined before row 14, and two rows with the
\* same 14 deltas have the same RSI.
C27_Rsi ==
    t_pc = "temporal" =>
        LET n == NRows(df)
            p == df["priceUsd"]
            rsi == df["rsi"]
        IN  /\ \A i \in 1..n :
                  IsNum(rsi[i]) => (rsi[i].v >= 0 /\ rsi[i].v <= 100 * Scale)
            /\ \A i \in 1..n :
                  rsi[i] = IF i < 14 THEN NaN
                           ELSE RsiFromMeans(RiseSum(p, i - 13, i) \div 14,
                                             FallSum(p, i - 13, i) \div 14)
            /\ \A i \in 14..(n - 1) :
                  (\A k \in 0..13 : DeltaAt(p, i - k) = DeltaAt(p, i + 1 - k))
                      => rsi[i] = rsi[i + 1]
\* a series with rises and falls: an RSI strictly between 0 and 100
C27_Witness ==
    /\ t_pc = "temporal"
    /\ NRows(df) > WarmUp
    /\ \E i \in 14..NRows(df) :
          IsNum(df["rsi"][i]) /\ df["rsi"][i].v > 0 /\ df["rsi"][i].v < 100 * Scale
    /\ \E i \in 14..NRows(df) : IsNaN(df["rsi"][i])

(***************************************************************************)
(* The Airflow DAG crypto_volatility_pipeline (crypto_pipeline_dag.py):    *)
(* one DAG run.  The six tasks form a chain; the scheduler starts a task   *)
(* when its upstream task has succeeded (the default trigger rule), tries  *)
(* a task that raised again `retries` times, retry_delay later, and marks  *)
(* the tasks below a failed task upstream_failed.  extract_data writes the *)
(* raw file with CoinCapExtractor (extract.py); the history endpoint is    *)
(* the one COINCAP_BASE_URL names, and its records carry the fields time   *)
(* and priceUsd, alone or with OHLCV fields beside them.  Times are the    *)
(* minutes of the gate tables.                                             *)
(***************************************************************************)
retries == 2
retry_delay == 5

\* df.sort_values(c): ascending, missing keys last, equal keys in the given order
sort_values(rows, c) ==
    LET n == Len(rows)
        key == Col([i \in 1..n |-> IF rows[i][c].k \in {"time", "int", "num"}
                                   THEN <<0, rows[i][c].v>> ELSE <<1, 0>>], n)
        rank == Col([i \in 1..n |->
                   Cardinality({j \in 1..n : KeyLess(key[j], key[i])
                                             \/ (key[j] = key[i] /\ j < i)}) + 1], n)
        at == Col([r \in 1..n |-> CHOOSE i \in 1..n : rank[i] = r], n)
    IN  Col([r \in 1..n |-> rows[at[r]]], n)

\* the columns of pd.DataFrame(data['data']) with the column date added
coincap_columns(a) ==
    IF a.fields = "ohlcv"
    THEN <<"priceUsd", "time">> \o GateColumns \o <<"date">>
    ELSE <<"priceUsd", "time", "date">>
\* record i of data['data']
coincap_record(a, i) ==
    LET own == [priceUsd |-> IF a.defect = "null_price" /\ i <= a.k
                             THEN RawText ELSE RawNum(GatePrice(i)),
                time |-> RawInt(LastStamp - 5 * (a.n - i))]
    IN  IF a.fields = "ohlcv"
        THEN own @@ GateRow([n |-> a.n, defect |-> a.defect, k |-> a.k], i)
        ELSE own
\* CoinCapExtractor.fetch_historical_data as extract_and_save writes it and
\* read_csv reads it back: date parsed from time, priceUsd made numeric
\* (text becomes an empty field), rows sorted by date
coincap_fetch_historical_data(a) ==
    LET names == coincap_columns(a)
        Parsed(i) ==
            LET r == coincap_record(a, i)
                e == [r EXCEPT !.priceUsd = IF IsNumber(r.priceUsd) THEN r.priceUsd
                                            ELSE RawEmpty]
            IN  e @@ [date |-> RawTime(r.time.v)]
        rows == Col([i \in 1..a.n |-> Table([c \in SeqToSet(names) |-> Parsed(i)[c]])],
                    a.n)
    IN  [names |-> names, rows |-> sort_values(rows, "date")]
\* fetch_historical_data raises ValueError when the endpoint returns no record
coincap_fetch_raises(a) == a.n = 0

\* the six checks of the checker quality_check constructs:
\* DataQualityChecker(null_threshold=0.01, schema_strict=False)
dag_checks(gt, t) ==
    <<check_data_volume(gt), check_null_values(gt, 100), check_schema(gt, FALSE),
      check_data_ranges(gt), check_duplicates(gt), check_data_freshness(gt, t)>>
dag_gate_raises(gt) == ranges_raises(gt) \/ freshness_raises(gt)

\* engineer.transform(raw_data_path, output_file) raises in load_raw_data when
\* the file lacks a column it reads or a date does not parse
transform_raises(gt) ==
    \/ ~HasColumn(gt, "date")
    \/ ~HasColumn(gt, "priceUsd")
    \/ \E i \in 1..Len_df(gt) : gt.rows[i]["date"].k = "text"

Pos(t) == CHOOSE i \in 1..Len(Tasks) : Tasks[i] = t
\* a variant that starts a task whatever the state of its upstream task
Runnable_unordered(t) == ti[t] \in {"none", "up_for_retry"}
\* extract_task >> quality_check_task >> ... >> metrics_task
Runnable(t) ==
    /\ ti[t] \in {"none", "up_for_retry"}
    /\ Pos(t) > 1 => ti[Tasks[Pos(t) - 1]] = "success"
\* state of a task instance after its try number k raised
AfterFailure(k) == IF k <= retries THEN "up_for_retry" ELSE "failed"
TaskFails(t, k) ==
    /\ ti' = [ti EXCEPT ![t] = AfterFailure(k)]
    /\ d_now' = IF k <= retries THEN d_now + retry_delay ELSE d_now
TaskSucceeds(t) ==
    /\ ti' = [ti EXCEPT ![t] = "success"]
    /\ d_now' = d_now
\* a task whose callable runs in one step: it succeeds and pushes, or raises
RunTask(t, ok, pushed) ==
    /\ Runnable(t)
    /\ try_number' = [try_number EXCEPT ![t] = @ + 1]
    /\ IF ok
       THEN TaskSucceeds(t) /\ xcom' = pushed @@ xcom
       ELSE TaskFails(t, try_number[t] + 1) /\ xcom' = xcom
    /\ UNCHANGED <<api, q_pc, q_passed, reports, rejected, not_dag>>

ApiRuns ==
    {[fields |-> f, n |-> s[1], defect |-> s[2], k |-> 1] :
        f \in {"coincap", "ohlcv"},
        s \in {<<0, "none">>, <<min_rows - 1, "none">>, <<min_rows, "none">>,
               <<min_rows, "null_price">>, <<min_rows, "bad_ts">>,
               <<min_rows, "nonpositive">>}}
\* the time the run starts: the newest record a minute old, two tries short
\* of max_age_hours old, or older
DagClock == {LastStamp + 1, LastStamp + 60 * max_age_hours - retry_delay,
             LastStamp + 60 * max_age_hours + 1}

InitDag ==
    /\ api \in ApiRuns
    /\ d_now \in DagClock
    /\ ti = [t \in TaskIds |-> "none"]
    /\ try_number = [t \in TaskIds |-> 0]
    /\ xcom = <<>>
    /\ raw_file = NoGateTable
    /\ q_pc = "off"
    /\ q_passed = FALSE
    /\ reports = <<>>
    /\ rejected = FALSE
    /\ processed = FALSE
    /\ TransformIdle
    /\ GateIdle
    /\ ExtractIdle
    /\ TrainIdle
    /\ ApiIdle

\* extract_data: the connection check and extract_and_save, each of which
\* raises when the endpoint cannot be reached
ExtractData ==
    \E up \in BOOLEAN :
        LET ok == up /\ ~coincap_fetch_raises(api)
        IN  /\ RunTask("extract_data", ok, "raw_data_path" :> "crypto_raw.csv")
            /\ raw_file' = IF ok THEN coincap_fetch_historical_data(api) ELSE raw_file
            /\ UNCHANGED processed

\* quality_check up to the return of run_all_checks
QualityCheckRunGate ==
    /\ Runnable("quality_check")
    /\ q_pc = "off"
    /\ try_number' = [try_number EXCEPT !["quality_check"] = @ + 1]
    /\ IF "raw_data_path" \notin DOMAIN xcom \/ dag_gate_raises(raw_file)
       THEN /\ TaskFails("quality_check", try_number["quality_check"] + 1)
            /\ UNCHANGED <<q_pc, q_passed, rejected>>
       ELSE /\ ti' = [ti EXCEPT !["quality_check"] = "running"]
            /\ q_pc' = "gated"
            /\ q_passed' = all_passed(dag_checks(raw_file, d_now))
            /\ rejected' = (rejected \/ ~q_passed')
            /\ d_now' = d_now
    /\ UNCHANGED <<api, xcom, raw_file, reports, processed, not_dag>>
\* checker.save_report(report, report_path)
QualityCheckSaveReport ==
    /\ q_pc = "gated"
    /\ q_pc' = "saved"
    /\ reports' = Append(reports, IF q_passed THEN "PASSED" ELSE "FAILED")
    /\ UNCHANGED <<api, d_now, ti, try_number, xcom, raw_file, q_passed, rejected,
                   processed, not_dag>>
\* if not passed: raise ValueError
QualityCheckRaise ==
    /\ q_pc = "saved"
    /\ ~q_passed
    /\ q_pc' = "off"
    /\ TaskFails("quality_check", try_number["quality_check"])
    /\ UNCHANGED <<api, try_number, xcom, raw_file, q_passed, reports, rejected,
                   processed, not_dag>>
\* the two xcom_push calls and the return
QualityCheckPublish ==
    /\ q_pc = "saved"
    /\ q_passed
    /\ q_pc' = "off"
    /\ TaskSucceeds("quality_check")
    /\ xcom' = ("validated_data_path" :> xcom["raw_data_path"]
                @@ "quality_report_path" :> "quality_report.json") @@ xcom
    /\ UNCHANGED <<api, try_number, raw_file, q_passed, reports, rejected,
                   processed, not_dag>>

TransformData ==
    LET ok == "validated_data_path" \in DOMAIN xcom /\ ~transform_raises(raw_file)
    IN  /\ RunTask("transform_data", ok,
                   "processed_data_path" :> "crypto_processed.csv"
                   @@ "profiling_report_path" :> "data_profile.html")
        /\ processed' = (processed \/ ok)
        /\ UNCHANGED raw_file
\* train_and_log may raise
TrainModel ==
    \E trained \in BOOLEAN :
        /\ RunTask("train_model", trained /\ "processed_data_path" \in DOMAIN xcom,
                   "run_id" :> "run" @@ "test_rmse" :> "rmse" @@ "test_r2" :> "r2")
        /\ UNCHANGED <<raw_file, processed>>
VersionWithDvc ==
    /\ RunTask("version_with_dvc", "processed_data_path" \in DOMAIN xcom, <<>>)
    /\ UNCHANGED <<raw_file, processed>>
\* formatting a missing test_rmse or test_r2 raises TypeError
LogPipelineMetrics ==
    /\ RunTask("log_pipeline_metrics", {"test_rmse", "test_r2"} \subseteq DOMAIN xcom, <<>>)
    /\ UNCHANGED <<raw_file, processed>>
\* the scheduler gives up the tasks below a failed task
MarkUpstreamFailed ==
    \E t \in TaskIds :
        /\ Pos(t) > 1
        /\ ti[t] = "none"
        /\ ti[Tasks[Pos(t) - 1]] \in {"failed", "upstream_failed"}
        /\ ti' = [ti EXCEPT ![t] = "upstream_failed"]
        /\ UNCHANGED <<api, d_now, try_number, xcom, raw_file, q_pc, q_passed, reports,
                       rejected, processed, not_dag>>

NextDag ==
    \/ ExtractData
    \/ QualityCheckRunGate
    \/ QualityCheckSaveReport
    \/ QualityCheckRaise
    \/ QualityCheckPublish
    \/ TransformData
    \/ TrainModel
    \/ VersionWithDvc
    \/ LogPipelineMetrics
    \/ MarkUpstreamFailed

SpecDag == InitDag /\ [][NextDag]_vars

(***************************************************************************)
(* Properties of the DAG run.                                              *)
(***************************************************************************)
AfterGate == {"transform_data", "train_model", "version_with_dvc", "log_pipeline_metrics"}
\* a task below the gate has started only if quality_check succeeded on a
\* verdict passed = True
StartedAfterPass ==
    \A t \in AfterGate :
        try_number[t] > 0 =>
            /\ ti["quality_check"] = "success"
            /\ q_passed
            /\ ~rejected
            /\ "validated_data_path" \in DOMAIN xcom
\* a rejected file is never published
RejectedUnpublished == rejected => "validated_data_path" \notin DOMAIN xcom
\* after the gate returned, the report is saved first; after passed = False
\* the callable then raises and pushes nothing
SaveThenRaise ==
    /\ q_pc = "gated" =>
          /\ q_pc' = "saved"
          /\ reports' = Append(reports, IF q_passed THEN "PASSED" ELSE "FAILED")
          /\ xcom' = xcom /\ ti' = ti
    /\ (q_pc = "saved" /\ ~q_passed) =>
          /\ reports # <<>>
          /\ reports[Len(reports)] = "FAILED"
          /\ ti'["quality_check"] \in {"up_for_retry", "failed"}
          /\ xcom' = xcom
\* C22: in a DAG run transform_data, train_model, version_with_dvc and
\* log_pipeline_metrics start only after quality_check succeeded on a gate
\* verdict passed = True; when the gate returns passed = False, quality_check
\* saves the report, then raises, and validated_data_path is never pushed in
\* that run.
C22_GateHalts ==
    /\ [](StartedAfterPass /\ RejectedUnpublished)
    /\ [][SaveThenRaise]_vars
\* a run in which the gate rejected the file on each try: three reports
\* saved, the task failed, nothing below it started
C22_Witness ==
    /\ rejected
    /\ ti["quality_check"] = "failed"
    /\ Len(reports) = retries + 1
    /\ \A t \in AfterGate : ti[t] = "upstream_failed" /\ try_number[t] = 0
\* a run in which the tasks below the gate ran after it passed
C22_Started ==
    /\ ti["quality_check"] = "success"
    /\ \A t \in AfterGate : ti[t] = "success"

\* the extraction returned a null-free, duplicate-free series of at least
\* min_rows positive prices that is still fresh
GoodSeries ==
    /\ api.n >= min_rows
    /\ api.defect = "none"
    /\ d_now - LastStamp <= 60 * max_age_hours
\* C30 as stated: the raw file extract_data wrote has the columns the gate
\* requires; a file the gate passed has the columns date and priceUsd the
\* transform loader reads; and in a run whose extraction returned a fresh,
\* null-free, duplicate-free series of at least 100 positive prices,
\* quality_check does not raise and transform_data, once tried, completes.
C30_AsStated ==
    /\ "raw_data_path" \in DOMAIN xcom => required_columns \subseteq SeqToSet(raw_file.names)
    /\ ti["quality_check"] = "success" =>
          HasColumn(raw_file, "date") /\ HasColumn(raw_file, "priceUsd")
    /\ GoodSeries =>
          /\ ti["quality_check"] \notin {"up_for_retry", "failed"}
          /\ try_number["transform_data"] > 0 =>
                ti["transform_data"] = "success" /\ processed
\* what the code does with the records of the CoinCap history endpoint (time
\* and priceUsd): the raw file lacks every column the gate requires, the gate
\* never passes it, and nothing below the gate runs
C30_CoinCapRejected ==
    api.fields = "coincap" =>
        /\ "raw_data_path" \in DOMAIN xcom =>
              required_columns \cap SeqToSet(raw_file.names) = {}
        /\ ti["quality_check"] # "success"
        /\ ~processed
\* a good series from the CoinCap endpoint, rejected by the gate on every try
C30_GoodSeriesRejected ==
    /\ api.fields = "coincap"
    /\ GoodSeries
    /\ ti["extract_data"] = "success"
    /\ ti["quality_check"] = "failed"
    /\ ti["transform_data"] = "upstream_failed"

(***************************************************************************)
(* CryptoCompareExtractor (test_api.py).  An HTTP attempt ends with a      *)
(* status, 0 standing for requests.get raising (timeout, connection        *)
(* error); the body of a 200 answer is a JSON document of the shape the    *)
(* API documents.  extract_and_save is run on the fetch methods of the     *)
(* class, or, as in tests/test_extract.py, on patched ones.                *)
(***************************************************************************)
max_retries == 3
Statuses == {0, 200, 204, 429, 500}
Some(x) == [some |-> TRUE, v |-> x]
\* the attempt got an answer, not rate-limited, and raise_for_status() passes
Succeeds(status) == status # 0 /\ status # 429 /\ status < 400

\* a variant in which a rate-limited answer does not use up an attempt
next_attempt_free(a, status) == IF status = 429 THEN a ELSE a + 1
\* the loop variable after an attempt
next_attempt(a, status) == a + 1
\* the attempt ends the call: a response is returned, or the loop is over
\* (return None in the handler of the last attempt, or after the loop)
call_ends(a, status) == Succeeds(status) \/ next_attempt(a, status) >= max_retries

\* the candles of data['Data']['Data'], as the endpoint orders them
CandleFields == <<"time", "high", "low", "open", "volumefrom", "volumeto", "close",
                  "conversionType">>
Candle(b, i) ==
    LET j == IF b.order = "asc" THEN i ELSE b.n + 1 - i
    IN  [time |-> RawInt(LastStamp - 60 * (b.n - j)),
         high |-> RawNum(GatePrice(j) + Scale),
         low |-> RawNum(GatePrice(j) - Scale),
         open |-> RawNum(GatePrice(j) - 1),
         volumefrom |-> RawNum(Scale \div 2 + j),
         volumeto |-> RawNum(GatePrice(j) * 3),
         close |-> RawNum(GatePrice(j)),
         conversionType |-> RawText]
candles(b) == IF b.kind = "candles" THEN Col([i \in 1..b.n |-> Candle(b, i)], b.n) ELSE <<>>

\* df.rename(columns={'time': 'timestamp', ..., 'volumeto': 'volume_usd'})
rename(c) ==
    CASE c = "time" -> "timestamp"
      [] c = "volumefrom" -> "volume"
      [] c = "volumeto" -> "volume_usd"
      [] OTHER -> c
\* a variant that keeps every column of the candles
select_columns_all(names) == names
\* df[['timestamp', 'open', 'high', 'low', 'close', 'volume', 'volume_usd']]
select_columns(names) == GateColumns
\* a variant that leaves the candles in the order of the answer
sort_timestamp_skipped(rows) == rows
sort_timestamp(rows) == sort_values(rows, "timestamp")
frame_of(cs) ==
    LET n == Len(cs)
        all == Col([k \in 1..Len(CandleFields) |-> rename(CandleFields[k])],
                   Len(CandleFields))
        \* the renamed row, its timestamp parsed from the epoch number
        Renamed(i) ==
            [c \in SeqToSet(all) |->
                 IF c = "timestamp" THEN RawTime(cs[i].time.v)
                 ELSE cs[i][CHOOSE f \in SeqToSet(CandleFields) : rename(f) = c]]
        names == select_columns(all)
        rows == Col([i \in 1..n |-> Table([c \in SeqToSet(names) |-> Renamed(i)[c]])], n)
    IN  [names |-> names, rows |-> sort_timestamp(rows)]

\* fetch_current_price, given what _make_request returned
fetch_current_price(r) ==
    IF r.some /\ r.v = 200 THEN Some("price_usd") ELSE None
\* fetch_historical_data, given what _make_request returned and the body
fetch_historical_data(r, b) ==
    IF r.some /\ r.v = 200
    THEN IF b.kind = "error" THEN None
         ELSE IF Len(candles(b)) = 0 THEN None
         ELSE Some(frame_of(candles(b)))
    ELSE None
\* a variant that saves an empty table
nothing_to_save_none(h) == ~h.some
\* historical_df is None or historical_df.empty
nothing_to_save(h) == ~h.some \/ Len(h.v.rows) = 0

MaxCandles == 3
Bodies ==
    {[kind |-> k, n |-> 0, order |-> "asc"] : k \in {"error", "no_data"}}
    \cup {[kind |-> "candles", n |-> m, order |-> o] :
             m \in 0..MaxCandles, o \in {"asc", "desc"}}
\* the return values of the patched fetch_historical_data
PatchedFrames ==
    {None, Some([names |-> GateColumns, rows |-> <<>>]),
     Some(frame_of(candles([kind |-> "candles", n |-> 2, order |-> "asc"])))}

InitExtract ==
    /\ e_pc \in {"price_request", "patched"}
    /\ e_body \in Bodies
    /\ attempt = 0
    /\ e_log = <<>>
    /\ requests_made = 0
    /\ response = None
    /\ current_data = None
    /\ historical_df = None
    /\ e_files = {}
    /\ e_ret = None
    /\ TransformIdle
    /\ GateIdle
    /\ DagIdle
    /\ TrainIdle
    /\ ApiIdle

\* one pass of the loop of _make_request: the attempt and what follows it
HttpAttempt ==
    /\ e_pc \in {"price_request", "hist_request"}
    /\ \E status \in Statuses :
          /\ e_log' = Append(IF attempt = 0 THEN <<>> ELSE e_log, status)
          /\ requests_made' = IF status = 0 THEN requests_made ELSE requests_made + 1
          /\ IF call_ends(attempt, status)
             THEN /\ response' = IF Succeeds(status) THEN Some(status) ELSE None
                  /\ e_pc' = IF e_pc = "price_request" THEN "price_response"
                             ELSE "hist_response"
                  /\ attempt' = attempt
             ELSE /\ attempt' = next_attempt(attempt, status)
                  /\ UNCHANGED <<response, e_pc>>
    /\ UNCHANGED <<e_body, current_data, historical_df, e_files, e_ret, not_extract>>
\* fetch_current_price after its request; extract_and_save goes on to
\* fetch_historical_data, whose request starts a new loop
FetchCurrentPrice ==
    /\ e_pc = "price_response"
    /\ current_data' = fetch_current_price(response)
    /\ e_pc' = "hist_request"
    /\ attempt' = 0
    /\ UNCHANGED <<e_body, e_log, requests_made, response, historical_df, e_files, e_ret,
                   not_extract>>
FetchHistoricalData ==
    /\ e_pc = "hist_response"
    /\ historical_df' = fetch_historical_data(response, e_body)
    /\ e_pc' = "save"
    /\ UNCHANGED <<e_body, attempt, e_log, requests_made, response, current_data, e_files,
                   e_ret, not_extract>>
\* the two fetch methods patched, as in test_extract_and_save
PatchedFetch ==
    /\ e_pc = "patched"
    /\ current_data' \in {None, Some("price_usd")}
    /\ historical_df' \in PatchedFrames
    /\ e_pc' = "save"
    /\ UNCHANGED <<e_body, attempt, e_log, requests_made, response, e_files, e_ret,
                   not_extract>>
\* the rest of extract_and_save
ExtractAndSave ==
    /\ e_pc = "save"
    /\ e_pc' = "done"
    /\ IF nothing_to_save(historical_df)
       THEN e_ret' = None /\ e_files' = e_files
       ELSE /\ e_files' = e_files \cup {[name |-> "crypto_raw.csv",
                                         rows |-> Len(historical_df.v.rows)],
                                        [name |-> "extraction_metadata.json",
                                         rows |-> Len(historical_df.v.rows)]}
            /\ e_ret' = Some("crypto_raw.csv")
    /\ UNCHANGED <<e_body, attempt, e_log, requests_made, response, current_data,
                   historical_df, not_extract>>

NextExtract ==
    \/ HttpAttempt
    \/ FetchCurrentPrice
    \/ FetchHistoricalData
    \/ PatchedFetch
    \/ ExtractAndSave

SpecExtract == InitExtract /\ [][NextExtract]_vars

(***************************************************************************)
(* Properties of the extraction.                                           *)
(***************************************************************************)
Returned == e_pc \in {"price_response", "hist_response"}
\* the attempts of the call that got an answer that is not an error
Successes == {i \in 1..Len(e_log) : e_log[i] # 0 /\ e_log[i] < 400}
\* C23: _make_request returns (it never raises) after at most 3 HTTP attempts,
\* a 429 answer and an error each using up one; it returns the response of
\* the first successful attempt, which is then the last attempt made, and
\* None when none of the 3 attempts succeeded; given None,
\* fetch_current_price returns None.
C23_MakeRequest ==
    /\ Len(e_log) <= max_retries
    /\ (e_pc \in {"price_request", "hist_request"} /\ attempt > 0) =>
          /\ Len(e_log) = attempt
          /\ attempt < max_retries
          /\ Successes = {}
    /\ Returned =>
          /\ Len(e_log) >= 1
          /\ Successes # {} =>
                /\ Successes = {Len(e_log)}
                /\ response = Some(e_log[Len(e_log)])
          /\ Successes = {} => (response = None /\ Len(e_log) = max_retries)
    /\ (e_pc = "hist_request" /\ ~response.some) => current_data = None
\* a rate-limited answer, a timeout and a server error: None after the third
\* attempt, and fetch_current_price has returned None
C23_Witness ==
    /\ e_pc = "hist_request"
    /\ attempt = 0
    /\ e_log = <<429, 0, 500>>
    /\ response = None
    /\ current_data = None
    /\ requests_made = 2

\* fetch_historical_data has returned to extract_and_save (the method of the
\* class, not a patched one)
HistReturned == e_pc = "save" /\ e_log # <<>>
NoCandles == e_body.kind # "candles" \/ e_body.n = 0
\* the table returned: the seven columns, one row per candle of the body,
\* ascending by timestamp
IsCandleTable(h) ==
    /\ h.some
    /\ h.v.names = <<"timestamp", "open", "high", "low", "close", "volume", "volume_usd">>
    /\ Len(h.v.rows) = e_body.n
    /\ \A i \in 1..Len(h.v.rows) : DOMAIN h.v.rows[i] = SeqToSet(h.v.names)
    /\ \A i \in 1..e_body.n : \E j \in 1..Len(h.v.rows) :
          /\ h.v.rows[j]["timestamp"] = RawTime(Candle(e_body, i).time.v)
          /\ h.v.rows[j]["close"] = Candle(e_body, i).close
          /\ h.v.rows[j]["volume"] = Candle(e_body, i).volumefrom
          /\ h.v.rows[j]["volume_usd"] = Candle(e_body, i).volumeto
    /\ \A i \in 1..Len(h.v.rows) : \A j \in (i + 1)..Len(h.v.rows) :
          h.v.rows[i]["timestamp"].v <= h.v.rows[j]["timestamp"].v
\* C24 as stated: fetch_historical_data returns None when no response is
\* obtained, when the body has Response == 'Error' or when the candle list
\* is empty, and otherwise the table of the candles.
C24_AsStated ==
    HistReturned =>
        IF ~response.some \/ e_body.kind = "error" \/ NoCandles
        THEN historical_df = None
        ELSE IsCandleTable(historical_df)
\* C24, amended: fetch_historical_data returns None when no response is
\* obtained, when the response obtained has a status other than 200, when the
\* body has Response == 'Error' or when the candle list is empty or absent;
\* otherwise it returns a table with exactly the columns timestamp, open,
\* high, low, close, volume, volume_usd, one row per candle, ascending by
\* timestamp.
C24_FetchHistorical ==
    HistReturned =>
        IF ~response.some \/ response.v # 200 \/ e_body.kind = "error" \/ NoCandles
        THEN historical_df = None
        ELSE IsCandleTable(historical_df)
\* three candles sent newest first come back as a table, oldest first
C24_Witness ==
    /\ HistReturned
    /\ e_body.kind = "candles" /\ e_body.n = MaxCandles /\ e_body.order = "desc"
    /\ historical_df.some
    /\ Len(historical_df.v.rows) = MaxCandles
    /\ historical_df.v.rows[1]["timestamp"].v < historical_df.v.rows[2]["timestamp"].v

\* C25: extract_and_save returns None and writes neither the CSV nor the
\* metadata file when the historical fetch returned None or an empty table;
\* otherwise it writes the CSV, one row per historical record, and the
\* metadata file, and returns the path of the CSV, whether or not the
\* current-price fetch returned a price.
C25_ExtractAndSave ==
    e_pc = "done" =>
        IF ~historical_df.some \/ historical_df.v.rows = <<>>
        THEN e_ret = None /\ e_files = {}
        ELSE /\ e_ret = Some("crypto_raw.csv")
             /\ \E f \in e_files :
                   f.name = e_ret.v /\ f.rows = Len(historical_df.v.rows)
             /\ {f.name : f \in e_files} = {"crypto_raw.csv", "extraction_metadata.json"}
\* the price fetch returned None after its requests, the history fetch a table
C25_Witness ==
    /\ e_pc = "done"
    /\ current_data = None
    /\ historical_df.some
    /\ e_ret.some
    /\ e_files # {}
    /\ requests_made > max_retries
\* the patched history fetch returned an empty table: nothing is written
C25_EmptyTable ==
    /\ e_pc = "done"
    /\ historical_df.some
    /\ historical_df.v.rows = <<>>
    /\ e_ret = None

(***************************************************************************)
(* The trainer, src/models/train.py.  train_and_log splits the processed   *)
(* table in its given order and scales the three parts with a scaler       *)
(* fitted on the first.  A row of an array is the position of the row of   *)
(* the table it was taken from together with its feature value; one        *)
(* feature column stands for all of them, since the split and the scaler   *)
(* treat every column alike.  Sizes are in percent: for the sizes used     *)
(* here the truncated float products of the code are the exact ones.       *)
(***************************************************************************)
MaxRows == 40
\* the feature value of the i-th row of the processed table
FeatureAt(i) == ((i * i) % 7) * (Scale \div 2) - Scale - (Scale \div 2) + i
ProcessedTables == {[i \in 1..n |-> FeatureAt(i)] : n \in 0..MaxRows}
Sizes == {<<20, 20>>, <<10, 10>>, <<25, 25>>, <<10, 20>>}

\* df[feature_cols].values
values(dfv) == [i \in 1..Len(dfv) |-> [row |-> i, x |-> dfv[i]]]
\* X[a:b]
Slice(X, a, b) == IF b <= a THEN <<>> ELSE SubSeq(X, a + 1, b)

prepare_train_test_split(dfv, t, v) ==
    LET X == values(dfv)
        n == Len(X)
        train_end == (n * (100 - t - v)) \div 100
        val_end == (n * (100 - t)) \div 100
    IN  [X_train |-> Slice(X, 0, train_end),
         X_val |-> Slice(X, train_end, val_end),
         X_test |-> Slice(X, val_end, n)]

RECURSIVE RowSum(_, _)
RowSum(X, k) == IF k = 0 THEN 0 ELSE X[k].x + RowSum(X, k - 1)
RECURSIVE RowSumSq(_, _, _)
RowSumSq(X, k, m) ==
    IF k = 0 THEN 0 ELSE (X[k].x - m) * (X[k].x - m) + RowSumSq(X, k - 1, m)

\* StandardScaler.fit: the mean and the population standard deviation of
\* the column, a zero deviation being replaced by one
fit(X) ==
    LET k == Len(X)
        m == RowSum(X, k) \div k
        sd == Isqrt(RowSumSq(X, k, m) \div k)
    IN  [mean_ |-> m, scale_ |-> IF sd = 0 THEN Scale ELSE sd, n_samples_seen_ |-> k]
\* StandardScaler.transform
transform(sc, X) ==
    [i \in 1..Len(X) |-> [row |-> X[i].row,
                          x |-> ((X[i].x - sc.mean_) * Scale) \div sc.scale_]]
\* StandardScaler refuses an array without rows
scale_features_raises(tr, va, te) == Len(tr) = 0 \/ Len(va) = 0 \/ Len(te) = 0

\* a variant that fits the scaler on the whole table
scale_features_all(tr, va, te) ==
    LET scaler == fit(tr \o va \o te)
    IN  [scaler |-> scaler, X_train |-> transform(scaler, tr),
         X_val |-> transform(scaler, va), X_test |-> transform(scaler, te)]
scale_features(tr, va, te) ==
    LET scaler == fit(tr)
    IN  [scaler |-> scaler, X_train |-> transform(scaler, tr),
         X_val |-> transform(scaler, va), X_test |-> transform(scaler, te)]

InitTrain ==
    /\ s_pc = "loaded"
    /\ s_df \in ProcessedTables
    /\ \E sz \in Sizes : test_size = sz[1] /\ val_size = sz[2]
    /\ X_train = <<>>
    /\ X_val = <<>>
    /\ X_test = <<>>
    /\ tr_scaler = None
    /\ X_scaled = None
    /\ TransformIdle
    /\ GateIdle
    /\ DagIdle
    /\ ExtractIdle
    /\ ApiIdle

PrepareTrainTestSplit ==
    /\ s_pc = "loaded"
    /\ LET parts == prepare_train_test_split(s_df, test_size, val_size)
       IN  /\ X_train' = parts.X_train
           /\ X_val' = parts.X_val
           /\ X_test' = parts.X_test
    /\ s_pc' = "split"
    /\ UNCHANGED <<s_df, test_size, val_size, tr_scaler, X_scaled, not_train>>

ScaleFeatures ==
    /\ s_pc = "split"
    /\ IF scale_features_raises(X_train, X_val, X_test)
       THEN /\ s_pc' = "raised"
            /\ UNCHANGED <<tr_scaler, X_scaled>>
       ELSE LET r == scale_features(X_train, X_val, X_test)
            IN  /\ s_pc' = "scaled"
                /\ tr_scaler' = Some(r.scaler)
                /\ X_scaled' = Some([X_train |-> r.X_train, X_val |-> r.X_val,
                                     X_test |-> r.X_test])
    /\ UNCHANGED <<s_df, test_size, val_size, X_train, X_val, X_test, not_train>>

NextTrain == PrepareTrainTestSplit \/ ScaleFeatures
SpecTrain == InitTrain /\ [][NextTrain]_vars

RowsOf(X) == {X[i].row : i \in 1..Len(X)}
\* the part is taken from the table in the table's order, no row twice
InOrder(X) ==
    /\ \A i \in 1..Len(X) : X[i].row \in 1..Len(s_df) /\ X[i].x = s_df[X[i].row]
    /\ \A i, j \in 1..Len(X) : i < j => X[i].row < X[j].row
Precedes(A, B) == \A a \in RowsOf(A), b \in RowsOf(B) : a < b
RECURSIVE TableSum(_)
TableSum(k) == IF k = 0 THEN 0 ELSE s_df[k] + TableSum(k - 1)

\* C28: once the table is split, the train, validation and test parts are
\* pairwise disjoint, together hold every row of the table, keep the table's
\* order, every train row precedes every validation row and every validation
\* row precedes every test row; and the scaler scale_features leaves in the
\* predictor has seen exactly the train rows: its sample count is the size of
\* the train part and its mean is the mean of the first that many rows.
C28_SplitAndScale ==
    /\ s_pc \in {"split", "scaled", "raised"} =>
          /\ RowsOf(X_train) \cap RowsOf(X_val) = {}
          /\ RowsOf(X_train) \cap RowsOf(X_test) = {}
          /\ RowsOf(X_val) \cap RowsOf(X_test) = {}
          /\ RowsOf(X_train) \cup RowsOf(X_val) \cup RowsOf(X_test) = 1..Len(s_df)
          /\ InOrder(X_train) /\ InOrder(X_val) /\ InOrder(X_test)
          /\ Precedes(X_train, X_val)
          /\ Precedes(X_val, X_test)
    /\ s_pc = "scaled" =>
          /\ tr_scaler.some
          /\ tr_scaler.v.n_samples_seen_ = Len(X_train)
          /\ tr_scaler.v.mean_ = TableSum(Len(X_train)) \div Len(X_train)
          /\ X_scaled.some
          /\ \A i \in 1..Len(X_val) :
                X_scaled.v.X_val[i].x
                    = ((X_val[i].x - tr_scaler.v.mean_) * Scale) \div tr_scaler.v.scale_
\* a table split into three parts that all have rows, scaled, where the mean
\* of the train part is not the mean of the whole table
C28_Witness ==
    /\ s_pc = "scaled"
    /\ test_size = 20 /\ val_size = 20
    /\ Len(X_train) > Len(X_val) /\ Len(X_val) > 0 /\ Len(X_test) > 0
    /\ tr_scaler.v.mean_ # TableSum(Len(s_df)) \div Len(s_df)

(***************************************************************************)
(* The prediction API, src/api/app.py.  The startup event loads the model, *)
(* the scaler and the feature names; POST /predict answers from what was   *)
(* loaded.  A feature value is a cell as in the feature pipeline; a ratio  *)
(* is an exact fraction [num, den].  The scaler and the model were fitted  *)
(* on NFeatures columns.  A StandardScaler rejects, with ValueError, an    *)
(* array of another width or one holding an infinite value; an XGBoost     *)
(* regressor rejects another width with ValueError, an MLflow model with   *)
(* an MlflowException; an infinite value that reaches the model makes it   *)
(* raise a library error.                                                  *)
(***************************************************************************)
NFeatures == 2
MaxFeatures == NFeatures + 1
FeatureValues ==
    {[k |-> "num", v |-> 0], [k |-> "num", v |-> 3 * Scale],
     [k |-> "num", v |-> 0 - (3 * Scale + 1)], [k |-> "nan", v |-> 0],
     [k |-> "inf", v |-> 1]}
Requests == UNION {[1..n -> FeatureValues] : n \in 0..MaxFeatures}
Predictions == {0, Scale \div 50}
DriftThresholds == {0, 15, 50}
\* what load_model finds: the registry, models/model.json, models/scaler.joblib
\* and models/feature_names.json
Deployments ==
    [registry : BOOLEAN, local : BOOLEAN, scaler : {"absent", "ok", "corrupt"},
     names : {"absent", "ok", "no_key", "corrupt"}]

\* Python's truth value of a list or None
Truthy(x) == x.some /\ x.v # <<>>

_compute_feature_stats(names) ==
    IF Truthy(names)
    THEN Some([mean |-> [i \in 1..Len(names.v) |-> 0],
               std |-> [i \in 1..Len(names.v) |-> Scale],
               min |-> [i \in 1..Len(names.v) |-> 0 - 10 * Scale],
               max |-> [i \in 1..Len(names.v) |-> 10 * Scale]])
    ELSE None

\* load_model: the fields of the manager afterwards.  An exception after the
\* model is set leaves the model set and the later fields as they were.
load_model(d) ==
    LET model == IF d.registry THEN Some([kind |-> "pyfunc", n |-> NFeatures])
                 ELSE IF d.local THEN Some([kind |-> "xgb", n |-> NFeatures])
                 ELSE None
        version == IF d.registry THEN Some("crypto-volatility-predictor:Production")
                   ELSE IF d.local THEN Some("local") ELSE None
        scaler == IF d.scaler = "ok" THEN Some([n |-> NFeatures]) ELSE None
        names == IF d.names = "ok" THEN Some([i \in 1..NFeatures |-> i])
                 ELSE IF d.names = "no_key" THEN Some(<<>>) ELSE None
    IN  IF ~model.some
        THEN [model |-> None, version |-> None, scaler |-> None, names |-> None,
              stats |-> None, ret |-> FALSE]
        ELSE IF d.scaler = "corrupt"
        THEN [model |-> model, version |-> version, scaler |-> None, names |-> None,
              stats |-> None, ret |-> FALSE]
        ELSE IF d.names = "corrupt"
        THEN [model |-> model, version |-> version, scaler |-> scaler, names |-> None,
              stats |-> None, ret |-> FALSE]
        ELSE [model |-> model, version |-> version, scaler |-> scaler, names |-> names,
              stats |-> _compute_feature_stats(names), ret |-> TRUE]

Abs(x) == IF x < 0 THEN 0 - x ELSE x
\* the test of one value in detect_drift: z_score > 3, NaN or infinite
IsOod(val, mean_val, std_val) ==
    \/ val.k = "nan"
    \/ val.k = "inf"
    \/ val.k = "num" /\ Abs(val.v - mean_val) > 3 * std_val
\* a variant that reports drift when the ratio equals the threshold
detect_drift_inclusive(stats, names, threshold, features) ==
    IF ~stats.some
    THEN [raises |-> FALSE, drift_detected |-> FALSE,
          drift_ratio |-> [num |-> 0, den |-> 1], ood_features |-> <<>>]
    ELSE LET m == IF Len(features) < Len(names.v) THEN Len(features) ELSE Len(names.v)
             ood == SelectSeq([i \in 1..m |-> i],
                       LAMBDA i : IsOod(features[i],
                                        IF i <= Len(stats.v.mean) THEN stats.v.mean[i] ELSE 0,
                                        IF i <= Len(stats.v.std) THEN stats.v.std[i] ELSE Scale))
         IN  IF Len(features) = 0
             THEN [raises |-> TRUE]
             ELSE [raises |-> FALSE,
                   drift_detected |-> Len(ood) * 100 >= threshold * Len(features),
                   drift_ratio |-> [num |-> Len(ood), den |-> Len(features)],
                   ood_features |-> [j \in 1..Len(ood) |-> names.v[ood[j]]]]
\* detect_drift; a division by zero raises
detect_drift(stats, names, threshold, features) ==
    IF ~stats.some
    THEN [raises |-> FALSE, drift_detected |-> FALSE,
          drift_ratio |-> [num |-> 0, den |-> 1], ood_features |-> <<>>]
    ELSE LET m == IF Len(features) < Len(names.v) THEN Len(features) ELSE Len(names.v)
             ood == SelectSeq([i \in 1..m |-> i],
                       LAMBDA i : IsOod(features[i],
                                        IF i <= Len(stats.v.mean) THEN stats.v.mean[i] ELSE 0,
                                        IF i <= Len(stats.v.std) THEN stats.v.std[i] ELSE Scale))
         IN  IF Len(features) = 0
             THEN [raises |-> TRUE]
             ELSE [raises |-> FALSE,
                   drift_detected |-> Len(ood) * 100 > threshold * Len(features),
                   drift_ratio |-> [num |-> Len(ood), den |-> Len(features)],
                   ood_features |-> [j \in 1..Len(ood) |-> names.v[ood[j]]]]

HasInf(features) == \E i \in 1..Len(features) : features[i].k = "inf"
\* scaler.transform(X) raises ValueError
scaler_rejects(scaler, features) ==
    scaler.some /\ (Len(features) # scaler.v.n \/ HasInf(features))
\* what model.predict raises, "" when it answers
model_raises(model, features) ==
    IF Len(features) # model.v.n
    THEN IF model.v.kind = "xgb" THEN "ValueError" ELSE "Exception"
    ELSE IF HasInf(features) THEN "Exception" ELSE ""
\* max(0.0, min(1.0, 1.0 - drift_ratio))
confidence_of(ratio) ==
    LET c == ratio.den - ratio.num
    IN  IF c < 0 THEN [num |-> 0, den |-> ratio.den]
        ELSE IF c > ratio.den THEN [num |-> ratio.den, den |-> ratio.den]
        ELSE [num |-> c, den |-> ratio.den]

\* ModelManager.predict: the result, or the exception it raises
manager_predict(model, version, scaler, names, stats, threshold, features, prediction) ==
    IF Truthy(names) /\ Len(features) # Len(names.v)
    THEN [raises |-> "ValueError", reached_model |-> FALSE]
    ELSE LET drift_info == detect_drift(stats, names, threshold, features)
         IN  IF drift_info.raises
             THEN [raises |-> "Exception", reached_model |-> FALSE]
             ELSE IF scaler_rejects(scaler, features)
             THEN [raises |-> "ValueError", reached_model |-> FALSE]
             ELSE IF model_raises(model, features) # ""
             THEN [raises |-> model_raises(model, features), reached_model |-> TRUE]
             ELSE [raises |-> "", reached_model |-> TRUE,
                   result |-> [prediction |-> prediction,
                               prediction_volatility |-> prediction * 50000,
                               confidence |-> confidence_of(drift_info.drift_ratio),
                               drift_detected |-> drift_info.drift_detected,
                               drift_ratio |-> drift_info.drift_ratio,
                               model_version |-> IF version.some THEN version.v
                                                 ELSE "unknown"]]

InitApi ==
    /\ a_pc = "startup"
    /\ mm_model = None
    /\ mm_scaler = None
    /\ mm_feature_names = None
    /\ mm_feature_stats = None
    /\ drift_threshold \in DriftThresholds
    /\ a_request = <<>>
    /\ a_reply = NoReply
    /\ a_computed = FALSE
    /\ TransformIdle
    /\ GateIdle
    /\ DagIdle
    /\ ExtractIdle
    /\ TrainIdle

\* startup_event
StartupEvent ==
    /\ a_pc = "startup"
    /\ \E d \in Deployments :
          LET m == load_model(d)
          IN  /\ mm_model' = IF m.model.some
                             THEN Some([kind |-> m.model.v.kind, n |-> m.model.v.n,
                                        version |-> m.version])
                             ELSE None
              /\ mm_scaler' = m.scaler
              /\ mm_feature_names' = m.names
              /\ mm_feature_stats' = m.stats
    /\ a_pc' = "serving"
    /\ UNCHANGED <<drift_threshold, a_request, a_reply, a_computed, not_api>>

\* POST /predict
Predict ==
    /\ a_pc = "serving"
    /\ \E features \in Requests, prediction \in Predictions :
          /\ a_request' = features
          /\ IF mm_model = None
             THEN /\ a_reply' = [status |-> 503]
                  /\ a_computed' = FALSE
             ELSE LET r == manager_predict(mm_model, mm_model.v.version, mm_scaler,
                                           mm_feature_names, mm_feature_stats,
                                           drift_threshold, features, prediction)
                  IN  /\ a_computed' = r.reached_model
                      /\ a_reply' = IF r.raises = "" THEN [status |-> 200, body |-> r.result]
                                    ELSE IF r.raises = "ValueError" THEN [status |-> 400]
                                    ELSE [status |-> 500]
    /\ a_pc' = "answered"
    /\ UNCHANGED <<mm_model, mm_scaler, mm_feature_names, mm_feature_stats,
                   drift_threshold, not_api>>

\* the answer is sent and the process waits for the next request
Respond ==
    /\ a_pc = "answered"
    /\ a_pc' = "serving"
    /\ a_request' = <<>>
    /\ a_reply' = NoReply
    /\ a_computed' = FALSE
    /\ UNCHANGED <<mm_model, mm_scaler, mm_feature_names, mm_feature_stats,
                   drift_threshold, not_api>>

NextApi == StartupEvent \/ Predict \/ Respond
SpecApi == InitApi /\ [][NextApi]_vars

Answered == a_pc = "answered"
\* feature names are loaded and the request has another number of features
CountDiffers == Truthy(mm_feature_names) /\ Len(a_request) # Len(mm_feature_names.v)
\* the scaler or the model raises ValueError on the request
LibraryValueError ==
    \/ mm_scaler.some /\ (Len(a_request) # NFeatures \/ HasInf(a_request))
    \/ ~mm_scaler.some /\ mm_model.v.kind = "xgb" /\ Len(a_request) # NFeatures
InUnit(q) == q.den > 0 /\ 0 <= q.num /\ q.num <= q.den
\* the success part of the answer
SuccessBody ==
    a_reply.status = 200 =>
        LET b == a_reply.body
        IN  /\ InUnit(b.drift_ratio)
            /\ InUnit(b.confidence)
            /\ b.confidence.num * b.drift_ratio.den
                   = (b.drift_ratio.den - b.drift_ratio.num) * b.confidence.den
            /\ b.drift_detected
                   <=> (b.drift_ratio.num * 100 > drift_threshold * b.drift_ratio.den)

\* C29 as stated: 503 and no prediction without a model, 400 when the count
\* of features differs from the loaded names, 500 on every other failure, and
\* the success fields as described.
C29_AsStated ==
    Answered =>
        /\ mm_model = None => a_reply.status = 503 /\ ~a_computed
        /\ (mm_model # None /\ CountDiffers) => a_reply.status = 400
        /\ (mm_model # None /\ ~CountDiffers /\ a_reply.status # 200)
               => a_reply.status = 500
        /\ SuccessBody
\* C29: POST /predict answers 503 without computing a prediction when no
\* model is loaded; with a model it answers 400 exactly when the prediction
\* raises ValueError, which is when feature names are loaded and the count of
\* supplied features differs from theirs, or the scaler or the model rejects
\* the input with ValueError; it answers 500 on every other failure; on
\* success drift_ratio and confidence are in [0,1], confidence is
\* 1 - drift_ratio and drift_detected holds exactly when drift_ratio exceeds
\* drift_threshold.
C29_Predict ==
    Answered =>
        /\ a_reply.status \in {200, 400, 500, 503}
        /\ mm_model = None <=> a_reply.status = 503
        /\ a_reply.status = 503 => ~a_computed
        /\ mm_model # None =>
              (a_reply.status = 400 <=> (CountDiffers \/ LibraryValueError))
        /\ SuccessBody
\* a request of the right width with one out-of-range value out of two, with
\* names, scaler and model loaded: answered 200 with drift_ratio 1/2
C29_Witness ==
    /\ Answered
    /\ a_reply.status = 200
    /\ mm_scaler.some /\ Truthy(mm_feature_names)
    /\ a_reply.body.drift_ratio = [num |-> 1, den |-> 2]
    /\ drift_threshold = 50
    /\ ~a_reply.body.drift_detected
\* an infinite feature value with names and scaler loaded: a failure other
\* than the count of features, answered 400
C29_ScalerRejects ==
    /\ Answered
    /\ mm_model # None /\ ~CountDiffers /\ HasInf(a_request)
    /\ a_reply.status = 400
====
